---- MODULE Spec2Model ----
(***************************************************************************)
(* Ridership aggregation engine of AJM-RouteSummaries                      *)
(* (src/RouteSummaryGenerator.py): the RouteManager / Route / Stop model,  *)
(* load propagation, the report builders and generateSummary.              *)
(*                                                                         *)
(* Python dicts are functions with a dynamic DOMAIN, Python lists are      *)
(* sequences, and a loosely typed cell or argument is a tagged value       *)
(* [t |-> "int" | "text" | "date" | "time" | "none", v |-> ...].           *)
(***************************************************************************)
EXTENDS Integers, Sequences, FiniteSets, TLC

VARIABLES
    routes,     \* RouteManager.routes: (route, direction) -> Route
    log,        \* Log.messages, counted per logging call site
    pc,         \* position of the driver (client of the classes, or generateSummary)
    calls,      \* number of ingestion calls / input rows consumed so far
    last,       \* the last call made on the RouteManager: its arguments and return value
    sheets,     \* the output workbook: sheet name -> rows written
    gs          \* the local variables of generateSummary

vars == <<routes, log, pc, calls, last, sheets, gs>>

----------------------------------------------------------------------------
(* Bounds of the model *)

NumStops == 2       \* stop numbers 1..NumStops are used by addStop
NumDates == 2       \* calendar dates 1..NumDates
NumTimes == 2       \* times of day 1..NumTimes
MaxCount == 1       \* offs, ons and onboard counts 0..MaxCount
MaxCalls == 4       \* ingestion calls made by a client of RouteManager

StopNos == 1..NumStops
Dates == 1..NumDates
Times == 1..NumTimes
Counts == 0..MaxCount

(* A datetime is <<date, time of day>>; Python orders datetimes by date, then time. *)
DateTimes == Dates \X Times
date(dt) == dt[1]
time(dt) == dt[2]

----------------------------------------------------------------------------
(* Loosely typed values *)

None == [t |-> "none"]
IntV(n) == [t |-> "int", v |-> n]
TextV(s) == [t |-> "text", v |-> s]
DateV(d) == [t |-> "date", v |-> d]
TimeV(h) == [t |-> "time", v |-> h]
DateTimeV(dt) == [t |-> "datetime", v |-> dt]

isinstance_int(x) == x.t = "int"

EmptyDict == [k \in {} |-> None]
Range(s) == {s[i] : i \in DOMAIN s}

RECURSIVE SumOver(_, _)
SumOver(f, S) ==
    IF S = {} THEN 0
    ELSE LET x == CHOOSE y \in S : TRUE IN f[x] + SumOver(f, S \ {x})

----------------------------------------------------------------------------
(* Direction enum and stringToDirection *)

DirectionCodes == {"IB", "OB", "NB", "SB", "EB", "WB", "LP", "UN"}

stringToDirection(dir_string) ==
    IF dir_string.t = "text" /\ dir_string.v \in (DirectionCodes \ {"UN"})
    THEN dir_string.v
    ELSE "UN"

(* Direction.__lt__ compares str(self), "Direction.XX": the order of the codes. *)
DirectionRank(d) ==
    CASE d = "EB" -> 1 [] d = "IB" -> 2 [] d = "LP" -> 3 [] d = "NB" -> 4
      [] d = "OB" -> 5 [] d = "SB" -> 6 [] d = "UN" -> 7 [] d = "WB" -> 8

Direction_lt(a, b) == DirectionRank(a) < DirectionRank(b)

(* Mutant: the direction is compared before the route number *)
KeyLess_direction_first(a, b) ==
    Direction_lt(a[2], b[2]) \/ (a[2] = b[2] /\ a[1] < b[1])

(* Tuple order on the (route, direction) keys, as sorted(self.routes.keys()) uses it. *)
KeyLess(a, b) == a[1] < b[1] \/ (a[1] = b[1] /\ Direction_lt(a[2], b[2]))

(* Order of datetimes: by date, then time of day. *)
DateTimeLess(a, b) == date(a) < date(b) \/ (date(a) = date(b) /\ time(a) < time(b))

(* The sort key (x.time(), x.date()): by time of day, then date. *)
TimeDateLess(a, b) == time(a) < time(b) \/ (time(a) = time(b) /\ date(a) < date(b))

SetToSeq(S) ==
    CHOOSE s \in [1..Cardinality(S) -> S] : Range(s) = S

SortedKeys(d) == SortSeq(SetToSeq(DOMAIN d), KeyLess)
SortedStopNos(d) == SortSeq(SetToSeq(DOMAIN d), <)

----------------------------------------------------------------------------
(* Log: one counter per logging call site, named severity_site, and the      *)
(* texts of the negative-load warnings in the order self.messages holds them *)

ErrorSites == {"E_addData_no_route", "E_addData_no_stop", "E_addData_duplicate",
               "E_addStop_duplicate", "E_open_ride_checks", "E_open_bus_stop",
               "E_row_type", "E_add_data_failure"}
WarningSites == {"W_onboard_override", "W_negative_load", "W_sequence", "W_ons_offs"}
LogSites == ErrorSites \cup WarningSites

NewLog == [s \in LogSites |-> 0] @@ [negative_load |-> << >>]
logMessage(l, site) == [l EXCEPT ![site] = @ + 1]
(* logWarning of the f-string of Route.buildLoad: the message names the route, *)
(* the direction, the departure and the stop                                   *)
logNegativeLoad(l, route, direction, datetime, stop_no) == [logMessage(l, "W_negative_load") EXCEPT !.negative_load = Append(@, <<route, direction, datetime, stop_no>>)]
NumErrors(l) == SumOver(l, ErrorSites)
NumWarnings(l) == SumOver(l, WarningSites)

----------------------------------------------------------------------------
(* class Stop *)

Stop(route, stop_no, street, cross_street) ==
    [route |-> route, stop_no |-> stop_no, street |-> street,
     cross_street |-> cross_street, descriptor |-> "Descriptor Unset",
     direction |-> "UN", data |-> EmptyDict]

(* Mutant: no duplicate check, a second observation replaces the first *)
Stop_addData_overwrite(stop, lg, datetime, run, arrival_time, schedule_time, offs, ons) ==
    [stop |-> [stop EXCEPT !.data = (datetime :>
                    [run |-> run, arrival_time |-> arrival_time,
                     schedule_time |-> schedule_time,
                     offs |-> IF isinstance_int(offs) /\ offs.v >= 0 THEN offs.v ELSE 0,
                     ons |-> IF isinstance_int(ons) /\ ons.v >= 0 THEN ons.v ELSE 0,
                     load |-> 0]) @@ @],
     log |-> lg, ret |-> TRUE]

(* Mutant: integer counts are stored as given, negative or not *)
Stop_addData_unclamped(stop, lg, datetime, run, arrival_time, schedule_time, offs, ons) ==
    IF datetime \in DOMAIN stop.data
    THEN [stop |-> stop, log |-> logMessage(lg, "E_addData_duplicate"), ret |-> FALSE]
    ELSE LET clean_offs == IF isinstance_int(offs) THEN offs.v ELSE 0
             clean_ons == IF isinstance_int(ons) THEN ons.v ELSE 0
             record == [run |-> run, arrival_time |-> arrival_time,
                        schedule_time |-> schedule_time, offs |-> clean_offs,
                        ons |-> clean_ons, load |-> 0]
         IN [stop |-> [stop EXCEPT !.data = (datetime :> record) @@ @],
             log |-> lg, ret |-> TRUE]

(* Mutant: the record starts with the boardings as its load *)
Stop_addData_preloaded(stop, lg, datetime, run, arrival_time, schedule_time, offs, ons) ==
    IF datetime \in DOMAIN stop.data
    THEN [stop |-> stop, log |-> logMessage(lg, "E_addData_duplicate"), ret |-> FALSE]
    ELSE LET clean_offs == IF isinstance_int(offs) /\ offs.v >= 0 THEN offs.v ELSE 0
             clean_ons == IF isinstance_int(ons) /\ ons.v >= 0 THEN ons.v ELSE 0
             record == [run |-> run, arrival_time |-> arrival_time,
                        schedule_time |-> schedule_time, offs |-> clean_offs,
                        ons |-> clean_ons, load |-> clean_ons]
         IN [stop |-> [stop EXCEPT !.data = (datetime :> record) @@ @],
             log |-> lg, ret |-> TRUE]

(* Stop.addData: [stop, log, ret] *)
Stop_addData(stop, lg, datetime, run, arrival_time, schedule_time, offs, ons) ==
    IF datetime \in DOMAIN stop.data
    THEN [stop |-> stop, log |-> logMessage(lg, "E_addData_duplicate"), ret |-> FALSE]
    ELSE LET clean_offs == IF isinstance_int(offs) /\ offs.v >= 0 THEN offs.v ELSE 0
             clean_ons == IF isinstance_int(ons) /\ ons.v >= 0 THEN ons.v ELSE 0
             record == [run |-> run, arrival_time |-> arrival_time,
                        schedule_time |-> schedule_time, offs |-> clean_offs,
                        ons |-> clean_ons, load |-> 0]
         IN [stop |-> [stop EXCEPT !.data = (datetime :> record) @@ @],
             log |-> lg, ret |-> TRUE]

(* Mutant: the load is set on a record that exists, and no record is created *)
Stop_setLoad_existing_only(stop, datetime, load) ==
    IF datetime \notin DOMAIN stop.data
    THEN stop
    ELSE [stop EXCEPT !.data[datetime].load = load]

Stop_setLoad(stop, datetime, load) ==
    IF datetime \notin DOMAIN stop.data
    THEN [stop EXCEPT !.data = (datetime :> [run |-> None, arrival_time |-> None,
                                            schedule_time |-> None, offs |-> 0,
                                            ons |-> 0, load |-> load]) @@ @]
    ELSE [stop EXCEPT !.data[datetime].load = load]

Stop_setRouteData(stop, description, direction) ==
    [stop EXCEPT !.descriptor = description, !.direction = direction]

(* Mutant: the pair is returned as (ons, offs) *)
Stop_getOffsAndOns_swapped(stop, datetime) ==
    IF datetime \notin DOMAIN stop.data
    THEN [offs |-> 0, ons |-> 0]
    ELSE [offs |-> stop.data[datetime].ons, ons |-> stop.data[datetime].offs]

Stop_getOffsAndOns(stop, datetime) ==
    IF datetime \notin DOMAIN stop.data
    THEN [offs |-> 0, ons |-> 0]
    ELSE [offs |-> stop.data[datetime].offs, ons |-> stop.data[datetime].ons]

Stop_getOffsOnsAndLoad(stop, datetime) ==
    IF datetime \notin DOMAIN stop.data
    THEN [offs |-> 0, ons |-> 0, load |-> 0]
    ELSE [offs |-> stop.data[datetime].offs, ons |-> stop.data[datetime].ons,
          load |-> stop.data[datetime].load]

Stop_getTotalOffsAndOns(stop) ==
    [offs |-> SumOver([d \in DOMAIN stop.data |-> stop.data[d].offs], DOMAIN stop.data),
     ons |-> SumOver([d \in DOMAIN stop.data |-> stop.data[d].ons], DOMAIN stop.data)]

(* Stop.getDescriptorAndDirectionTrunc, Stop.getStreetTrunc and               *)
(* Stop.getCrossStreetTrunc: the names of the model are shorter than every    *)
(* truncation length, so the slice keeps them whole.                          *)
Stop_getDescriptorAndDirectionTrunc(stop) == <<stop.descriptor, stop.direction>>
Stop_getStreetTrunc(stop) == stop.street
Stop_getCrossStreetTrunc(stop) == stop.cross_street

Stop_getRun(stop, datetime) ==
    IF datetime \notin DOMAIN stop.data THEN None ELSE stop.data[datetime].run

(* Stop.buildRouteTotalsByStop: [row, running_totals] *)
Stop_buildRouteTotalsByStop(stop, running_totals) ==
    LET keys == DOMAIN stop.data
        offs == SumOver([k \in keys |-> stop.data[k].offs], keys)
        ons == SumOver([k \in keys |-> stop.data[k].ons], keys)
        load == SumOver([k \in keys |-> stop.data[k].load], keys)
        total == ons + offs
    IN [row |-> [kind |-> "stop", route |-> stop.route,
                 name |-> Stop_getDescriptorAndDirectionTrunc(stop),
                 stop_no |-> stop.stop_no, street |-> Stop_getStreetTrunc(stop),
                 cross_street |-> Stop_getCrossStreetTrunc(stop),
                 ons |-> ons, offs |-> offs, total |-> total, load |-> load],
        running_totals |-> <<running_totals[1] + ons, running_totals[2] + offs,
                             running_totals[3] + total, running_totals[4] + load>>]

(* A time of day of the model counts tens of seconds since midnight *)
Seconds(dt) == date(dt) * 86400 + time(dt) * 10
(* Mutant: the minutes are cut off instead of rounded *)
round_div60_floor(seconds) == seconds \div 60
(* round(x / 60) of Python 3: to the nearest integer, a half to the even one *)
round_div60(seconds) ==
    LET q == seconds \div 60
        r == seconds % 60
    IN IF r < 30 THEN q
       ELSE IF r > 30 THEN q + 1
       ELSE IF q % 2 = 0 THEN q ELSE q + 1

(* Stop.getMinutesLate: None, or the minutes as an int value *)
Stop_getMinutesLate(stop, datetime) ==
    IF datetime \notin DOMAIN stop.data THEN None
    ELSE LET data == stop.data[datetime] IN
         IF data.arrival_time.t = "none" \/ data.schedule_time.t = "none" THEN None
         ELSE IntV(round_div60(Seconds(data.arrival_time.v) - Seconds(data.schedule_time.v)))

(* Stop.buildDetailReport: [row, col_totals]; the cells and the totals are    *)
(* keyed by worksheet column.                                                 *)
Stop_buildDetailReport(stop, col_totals) ==
    LET keys == SortSeq(SetToSeq(DOMAIN stop.data), TimeDateLess)
        col(k) == 5 + 3 * (k - 1)
        cols == UNION {{col(k), col(k) + 1, col(k) + 2} : k \in DOMAIN keys}
        cell(c) == LET k == ((c - 5) \div 3) + 1
                       record == stop.data[keys[k]]
                   IN CASE (c - 5) % 3 = 0 -> record.ons
                        [] (c - 5) % 3 = 1 -> record.offs
                        [] (c - 5) % 3 = 2 -> record.load
    IN [row |-> [stop_no |-> stop.stop_no, street |-> Stop_getStreetTrunc(stop),
                 cross_street |-> Stop_getCrossStreetTrunc(stop),
                 cells |-> [c \in cols |-> cell(c)]],
        col_totals |-> [c \in cols \cup DOMAIN col_totals |->
                          (IF c \in cols THEN cell(c) ELSE 0)
                          + (IF c \in DOMAIN col_totals THEN col_totals[c] ELSE 0)]]

----------------------------------------------------------------------------
(* class Route *)

(* stop_order is the insertion order of the dict self.stops, the order in     *)
(* which `for stop_no in self.stops` visits the stops.                        *)
Route(route, direction) ==
    [route |-> route, stops |-> EmptyDict, stop_order |-> << >>, times |-> << >>,
     descriptor |-> "Descriptor Unset", direction |-> direction,
     timed_stops |-> << >>, onboard |-> EmptyDict, city_name |-> "City Name Unset"]

(* Mutant: the stop number joins timed_stops before the stop is looked up *)
Route_addStop_timed_first(route, lg, stop_no, street, cross_street, is_timed) ==
    LET timed == IF is_timed
                 THEN SortSeq(Append(route.timed_stops, stop_no), <)
                 ELSE route.timed_stops
        stop == Stop_setRouteData(Stop(route.route, stop_no, street, cross_street),
                                  route.descriptor, route.direction)
    IN IF stop_no \in DOMAIN route.stops
       THEN [route |-> [route EXCEPT !.timed_stops = timed],
             log |-> logMessage(lg, "E_addStop_duplicate")]
       ELSE [route |-> [route EXCEPT !.timed_stops = timed,
                                     !.stops = (stop_no :> stop) @@ @,
                                     !.stop_order = Append(@, stop_no)],
             log |-> lg]

(* Route.addStop: [route, log] *)
Route_addStop(route, lg, stop_no, street, cross_street, is_timed) ==
    IF stop_no \in DOMAIN route.stops
    THEN [route |-> route, log |-> logMessage(lg, "E_addStop_duplicate")]
    ELSE LET timed == IF is_timed
                      THEN SortSeq(Append(route.timed_stops, stop_no), <)
                      ELSE route.timed_stops
             stop == Stop_setRouteData(Stop(route.route, stop_no, street, cross_street),
                                       route.descriptor, route.direction)
         IN [route |-> [route EXCEPT !.timed_stops = timed,
                                     !.stops = (stop_no :> stop) @@ @,
                                     !.stop_order = Append(@, stop_no)],
             log |-> lg]

(* Mutant: the list is sorted by date, then time *)
SortTimes_by_date(times) == SortSeq(times, DateTimeLess)

(* self.times.sort(key=lambda x: (x.time(), x.date())) *)
SortTimes(times) == SortSeq(times, TimeDateLess)

(* Mutant: a stored onboard value is kept, the first write wins *)
Route_addData_first_write(route, lg, stop_no, datetime, run, arrival_time, schedule_time, offs, ons, onboard) ==
    IF stop_no \notin DOMAIN route.stops
    THEN [route |-> route, log |-> logMessage(lg, "E_addData_no_stop"), ret |-> FALSE]
    ELSE LET times1 == IF datetime \notin Range(route.times)
                       THEN SortTimes(Append(route.times, datetime))
                       ELSE route.times
             override == /\ onboard.t /= "none"
                         /\ datetime \in DOMAIN route.onboard
                         /\ route.onboard[datetime] /= onboard.v
             lg1 == IF override THEN logMessage(lg, "W_onboard_override") ELSE lg
             onboard1 == IF onboard.t /= "none"
                         THEN route.onboard @@ (datetime :> onboard.v)
                         ELSE route.onboard
             r == Stop_addData(route.stops[stop_no], lg1, datetime, run, arrival_time,
                               schedule_time, offs, ons)
         IN [route |-> [route EXCEPT !.times = times1, !.onboard = onboard1,
                                     !.stops[stop_no] = r.stop],
             log |-> r.log, ret |-> r.ret]

(* Mutant: the datetime is appended to the list on every call *)
Route_addData_append_always(route, lg, stop_no, datetime, run, arrival_time, schedule_time, offs, ons, onboard) ==
    IF stop_no \notin DOMAIN route.stops
    THEN [route |-> route, log |-> logMessage(lg, "E_addData_no_stop"), ret |-> FALSE]
    ELSE LET times1 == SortTimes(Append(route.times, datetime))
             override == /\ onboard.t /= "none"
                         /\ datetime \in DOMAIN route.onboard
                         /\ route.onboard[datetime] /= onboard.v
             lg1 == IF override THEN logMessage(lg, "W_onboard_override") ELSE lg
             onboard1 == IF onboard.t /= "none"
                         THEN (datetime :> onboard.v) @@ route.onboard
                         ELSE route.onboard
             r == Stop_addData(route.stops[stop_no], lg1, datetime, run, arrival_time,
                               schedule_time, offs, ons)
         IN [route |-> [route EXCEPT !.times = times1, !.onboard = onboard1,
                                     !.stops[stop_no] = r.stop],
             log |-> r.log, ret |-> r.ret]

(* Route.addData: [route, log, ret] *)
Route_addData(route, lg, stop_no, datetime, run, arrival_time, schedule_time, offs, ons, onboard) ==
    IF stop_no \notin DOMAIN route.stops
    THEN [route |-> route, log |-> logMessage(lg, "E_addData_no_stop"), ret |-> FALSE]
    ELSE LET times1 == IF datetime \notin Range(route.times)
                       THEN SortTimes(Append(route.times, datetime))
                       ELSE route.times
             override == /\ onboard.t /= "none"
                         /\ datetime \in DOMAIN route.onboard
                         /\ route.onboard[datetime] /= onboard.v
             lg1 == IF override THEN logMessage(lg, "W_onboard_override") ELSE lg
             onboard1 == IF onboard.t /= "none"
                         THEN (datetime :> onboard.v) @@ route.onboard
                         ELSE route.onboard
             r == Stop_addData(route.stops[stop_no], lg1, datetime, run, arrival_time,
                               schedule_time, offs, ons)
         IN [route |-> [route EXCEPT !.times = times1, !.onboard = onboard1,
                                     !.stops[stop_no] = r.stop],
             log |-> r.log, ret |-> r.ret]

(* Route.setRouteData: [route, raised].  The loop body names `direction`, which *)
(* is no local, attribute or global there: it raises NameError on the first stop. *)
Route_setRouteData(route, description) ==
    [route |-> [route EXCEPT !.descriptor = description],
     raised |-> DOMAIN route.stops /= {}]

Route_setCityName(route, name) == [route EXCEPT !.city_name = name]

RECURSIVE Route_buildLoadStops_clamped(_, _, _, _, _)
(* Variant of the inner loop that stores and carries 0 for a negative load *)
Route_buildLoadStops_clamped(route, lg, datetime, stop_nos, current_load) ==
    IF stop_nos = << >>
    THEN [route |-> route, log |-> lg]
    ELSE LET stop_no == Head(stop_nos)
             cur == Stop_getOffsAndOns(route.stops[stop_no], datetime)
             load == current_load + cur.ons - cur.offs
             kept == IF load < 0 THEN 0 ELSE load
             route1 == [route EXCEPT
                          !.stops[stop_no] = Stop_setLoad(@, datetime, kept)]
             lg1 == IF load < 0
                    THEN logNegativeLoad(lg, route.route, route.direction,
                                         datetime, stop_no)
                    ELSE lg
         IN Route_buildLoadStops_clamped(route1, lg1, datetime, Tail(stop_nos), kept)

RECURSIVE Route_buildLoadStops(_, _, _, _, _)
(* The inner loop of Route.buildLoad over sorted(self.stops.keys()): [route, log] *)
Route_buildLoadStops(route, lg, datetime, stop_nos, current_load) ==
    IF stop_nos = << >>
    THEN [route |-> route, log |-> lg]
    ELSE LET stop_no == Head(stop_nos)
             cur == Stop_getOffsAndOns(route.stops[stop_no], datetime)
             load == current_load + cur.ons - cur.offs
             route1 == [route EXCEPT
                          !.stops[stop_no] = Stop_setLoad(@, datetime, load)]
             lg1 == IF load < 0
                    THEN logNegativeLoad(lg, route.route, route.direction,
                                         datetime, stop_no)
                    ELSE lg
         IN Route_buildLoadStops(route1, lg1, datetime, Tail(stop_nos), load)

RECURSIVE Route_buildLoadTimes(_, _, _)
(* The outer loop of Route.buildLoad over times_by_datetime: [route, log] *)
Route_buildLoadTimes(route, lg, times_by_datetime) ==
    IF times_by_datetime = << >>
    THEN [route |-> route, log |-> lg]
    ELSE LET datetime == Head(times_by_datetime)
             current_load == IF datetime \in DOMAIN route.onboard
                             THEN route.onboard[datetime]
                             ELSE 0
             r == Route_buildLoadStops(route, lg, datetime,
                                       SortedStopNos(route.stops), current_load)
         IN Route_buildLoadTimes(r.route, r.log, Tail(times_by_datetime))

(* Route.buildLoad: [route, log] *)
Route_buildLoad(route, lg) ==
    Route_buildLoadTimes(route, lg, SortSeq(route.times, DateTimeLess))

(* The descriptor cell written by the reports; the descriptors of the model are *)
(* shorter than every truncation length, so the slice keeps them whole.         *)
Route_getDescriptorAndDirectionTrunc(route) == <<route.descriptor, route.direction>>

(* Route.getTotalOffsAndOns *)
Route_getTotalOffsAndOns(route) ==
    LET offs == SumOver([s \in DOMAIN route.stops |->
                            Stop_getTotalOffsAndOns(route.stops[s]).offs],
                        DOMAIN route.stops)
        ons == SumOver([s \in DOMAIN route.stops |->
                            Stop_getTotalOffsAndOns(route.stops[s]).ons],
                       DOMAIN route.stops)
    IN [offs |-> offs, ons |-> ons, total |-> offs + ons]

(* One pass of the grouping loop of Route.buildTotalsByTime: the index just past *)
(* the run of entries of self.times, from index i, with the time of day of times[i] *)
RECURSIVE GroupEnd(_, _, _)
GroupEnd(times, first, i) ==
    IF i <= Len(times) /\ time(times[first]) = time(times[i])
    THEN GroupEnd(times, first, i + 1)
    ELSE i

RECURSIVE MaxLoadScan(_, _)
(* `if current_load > max_load: max_load = current_load` over a sequence of loads *)
MaxLoadScan(loads, max_load) ==
    IF loads = << >> THEN max_load
    ELSE MaxLoadScan(Tail(loads),
                     IF Head(loads) > max_load THEN Head(loads) ELSE max_load)

(* The tallies of one group of datetimes (search_datetimes): a row of the sheet *)
Route_totalsOfGroup(route, search_datetimes) ==
    LET cells == {<<search_datetimes[i], s>> :
                      i \in DOMAIN search_datetimes, s \in DOMAIN route.stops}
        got == [c \in cells |-> Stop_getOffsOnsAndLoad(route.stops[c[2]], c[1])]
        order == SetToSeq(cells)
    IN [route |-> route.route,
        name |-> Route_getDescriptorAndDirectionTrunc(route),
        start_time |-> time(search_datetimes[Len(search_datetimes)]),
        ons |-> SumOver([c \in cells |-> got[c].ons], cells),
        offs |-> SumOver([c \in cells |-> got[c].offs], cells),
        max_load |-> MaxLoadScan([i \in DOMAIN order |-> got[order[i]].load], 0)]

RECURSIVE Route_buildTotalsByTimeFrom(_, _)
(* Route.buildTotalsByTime from dt_search_index: the rows it writes *)
Route_buildTotalsByTimeFrom(route, dt_search_index) ==
    IF dt_search_index > Len(route.times) THEN << >>
    ELSE LET next == GroupEnd(route.times, dt_search_index, dt_search_index + 1)
             search_datetimes == SubSeq(route.times, dt_search_index, next - 1)
         IN <<Route_totalsOfGroup(route, search_datetimes)>>
            \o Route_buildTotalsByTimeFrom(route, next)

Route_buildTotalsByTime(route) == Route_buildTotalsByTimeFrom(route, 1)

(* Route.getDescriptorAndDirection *)
Route_getDescriptorAndDirection(route) == <<route.descriptor, route.direction>>

RECURSIVE Route_totalsByStopRows(_, _, _)
(* The loop of Route.buildRouteTotalsByStop over self.stops: [rows, running_totals] *)
Route_totalsByStopRows(route, stop_nos, running_totals) ==
    IF stop_nos = << >> THEN [rows |-> << >>, running_totals |-> running_totals]
    ELSE LET r == Stop_buildRouteTotalsByStop(route.stops[Head(stop_nos)], running_totals)
             rest == Route_totalsByStopRows(route, Tail(stop_nos), r.running_totals)
             shaded == Head(stop_nos) \in Range(route.timed_stops)
         IN [rows |-> <<[row |-> r.row, shaded |-> shaded]>> \o rest.rows,
             running_totals |-> rest.running_totals]

(* Mutant: the running totals start without the onboard total *)
Route_buildRouteTotalsByStop_from_zero(route) ==
    LET onboard_total == SumOver(route.onboard, DOMAIN route.onboard)
        r == Route_totalsByStopRows(route, route.stop_order, <<0, 0, 0, 0>>)
    IN <<[kind |-> "onboard", route |-> route.route, load |-> onboard_total]>>
       \o [i \in DOMAIN r.rows |-> r.rows[i].row @@ [shaded |-> r.rows[i].shaded]]
       \o <<[kind |-> "totals", route |-> route.route, ons |-> r.running_totals[1],
             offs |-> r.running_totals[2], total |-> r.running_totals[3],
             load |-> r.running_totals[4]]>>

(* Route.buildRouteTotalsByStop: the Onboard row, the stop rows, the Totals row *)
Route_buildRouteTotalsByStop(route) ==
    LET onboard_total == SumOver(route.onboard, DOMAIN route.onboard)
        r == Route_totalsByStopRows(route, route.stop_order, <<0, 0, 0, onboard_total>>)
    IN <<[kind |-> "onboard", route |-> route.route, load |-> onboard_total]>>
       \o [i \in DOMAIN r.rows |-> r.rows[i].row @@ [shaded |-> r.rows[i].shaded]]
       \o <<[kind |-> "totals", route |-> route.route, ons |-> r.running_totals[1],
             offs |-> r.running_totals[2], total |-> r.running_totals[3],
             load |-> r.running_totals[4]]>>

(* Route.buildOnTimeDetail: the two header rows, then a row per datetime *)
Route_buildOnTimeDetail(route) ==
    IF Len(route.timed_stops) = 0 THEN << >>
    ELSE LET timed == route.timed_stops
             late(datetime, i) == Stop_getMinutesLate(route.stops[timed[i]], datetime)
         IN <<[kind |-> "streets", route |-> route.route,
               cells |-> [i \in DOMAIN timed |-> Stop_getStreetTrunc(route.stops[timed[i]])]],
              [kind |-> "cross_streets", route |-> route.route,
               cells |-> [i \in DOMAIN timed |->
                             Stop_getCrossStreetTrunc(route.stops[timed[i]])]]>>
            \o [n \in DOMAIN route.times |->
                   [kind |-> "departure", route |-> route.route,
                    name |-> Route_getDescriptorAndDirectionTrunc(route),
                    date |-> date(route.times[n]), time |-> time(route.times[n]),
                    run |-> Stop_getRun(route.stops[timed[1]], route.times[n]),
                    cells |-> [i \in DOMAIN timed |->
                                  IF late(route.times[n], i).t = "none" THEN TextV("NA")
                                  ELSE late(route.times[n], i)]]]

(* Mutant: the report sorts the list by date, then time *)
SortTimesForReport_by_date(times) == SortSeq(times, DateTimeLess)

(* self.times.sort(key=lambda x: (x.time(), x.date())) in Route.buildDetailReport *)
SortTimesForReport(times) == SortSeq(times, TimeDateLess)

RECURSIVE Route_detailStopRows(_, _, _)
(* The loop of Route.buildDetailReport over self.stops: [rows, col_totals] *)
Route_detailStopRows(route, stop_nos, col_totals) ==
    IF stop_nos = << >> THEN [rows |-> << >>, col_totals |-> col_totals]
    ELSE LET r == Stop_buildDetailReport(route.stops[Head(stop_nos)], col_totals)
             rest == Route_detailStopRows(route, Tail(stop_nos), r.col_totals)
         IN [rows |-> <<r.row>> \o rest.rows, col_totals |-> rest.col_totals]

(* Mutant: the column totals start empty, without the onboard values *)
Route_buildDetailReport_empty_totals(route) ==
    IF Len(route.times) = 0 THEN [route |-> route, blocks |-> << >>]
    ELSE LET times == SortTimesForReport(route.times)
             col(n) == 5 + 3 * (n - 1)
             with_onboard == {n \in DOMAIN times : times[n] \in DOMAIN route.onboard}
             col_totals == [c \in {col(n) + 2 : n \in with_onboard} |->
                               route.onboard[times[((c - 7) \div 3) + 1]]]
             r == Route_detailStopRows(route, route.stop_order, EmptyDict)
         IN [route |-> [route EXCEPT !.times = times],
             blocks |-> <<[city_name |-> route.city_name, route |-> route.route,
                           name |-> Route_getDescriptorAndDirection(route),
                           headers |-> [n \in DOMAIN times |->
                                           [col |-> col(n), date |-> date(times[n]),
                                            time |-> time(times[n])]],
                           onboard |-> [n \in DOMAIN times |->
                                           IF n \in with_onboard
                                           THEN route.onboard[times[n]] ELSE 0],
                           stops |-> r.rows,
                           totals |-> r.col_totals]>>]

(* Route.buildDetailReport: [route, blocks]; self.times is sorted in place,   *)
(* blocks holds the block the route writes, if any.                           *)
Route_buildDetailReport(route) ==
    IF Len(route.times) = 0 THEN [route |-> route, blocks |-> << >>]
    ELSE LET times == SortTimesForReport(route.times)
             col(n) == 5 + 3 * (n - 1)
             with_onboard == {n \in DOMAIN times : times[n] \in DOMAIN route.onboard}
             col_totals == [c \in {col(n) + 2 : n \in with_onboard} |->
                               route.onboard[times[((c - 7) \div 3) + 1]]]
             r == Route_detailStopRows(route, route.stop_order, col_totals)
         IN [route |-> [route EXCEPT !.times = times],
             blocks |-> <<[city_name |-> route.city_name, route |-> route.route,
                           name |-> Route_getDescriptorAndDirection(route),
                           headers |-> [n \in DOMAIN times |->
                                           [col |-> col(n), date |-> date(times[n]),
                                            time |-> time(times[n])]],
                           onboard |-> [n \in DOMAIN times |->
                                           IF n \in with_onboard
                                           THEN route.onboard[times[n]] ELSE 0],
                           stops |-> r.rows,
                           totals |-> r.col_totals]>>]

----------------------------------------------------------------------------
(* class RouteManager; self.routes is the first argument *)

(* RouteManager.addStop: [routes, log] *)
RouteManager_addStop(rts, lg, route, direction, stop_no, street, cross_street, is_timed) ==
    LET key == <<route, direction>>
        rts1 == IF key \notin DOMAIN rts
                THEN (key :> Route(route, direction)) @@ rts
                ELSE rts
        r == Route_addStop(rts1[key], lg, stop_no, street, cross_street, is_timed)
    IN [routes |-> [rts1 EXCEPT ![key] = r.route], log |-> r.log]

(* Mutant: a missing route is created on the fly, as addStop does *)
RouteManager_addData_lazy(rts, lg, route, direction, stop_no, datetime, run, arrival_time, schedule_time, offs, ons, onboard) ==
    LET key == <<route, direction>>
        rts1 == IF key \notin DOMAIN rts
                THEN (key :> Route(route, direction)) @@ rts
                ELSE rts
        r == Route_addData(rts1[key], lg, stop_no, datetime, run, arrival_time,
                           schedule_time, offs, ons, onboard)
    IN [routes |-> [rts1 EXCEPT ![key] = r.route], log |-> r.log, ret |-> r.ret]

(* RouteManager.addData: [routes, log, ret] *)
RouteManager_addData(rts, lg, route, direction, stop_no, datetime, run, arrival_time, schedule_time, offs, ons, onboard) ==
    LET key == <<route, direction>> IN
    IF key \notin DOMAIN rts
    THEN [routes |-> rts, log |-> logMessage(lg, "E_addData_no_route"), ret |-> FALSE]
    ELSE LET r == Route_addData(rts[key], lg, stop_no, datetime, run, arrival_time,
                                schedule_time, offs, ons, onboard)
         IN [routes |-> [rts EXCEPT ![key] = r.route], log |-> r.log, ret |-> r.ret]

(* `route not in self.routes` (line 135): the keys of self.routes are         *)
(* (route, direction) tuples and `route` is the bare route number; a number   *)
(* equals no tuple, so no key ever matches.                                    *)
RouteNumberIsKey(rts, route) == \E key \in DOMAIN rts : key = <<route>>

(* Mutant: the description is set only on a route that already existed *)
RouteManager_setRouteData_else(rts, route, description, direction) ==
    LET key == <<route, direction>> IN
    IF key \notin DOMAIN rts
    THEN [routes |-> (key :> Route(route, direction)) @@ rts, raised |-> FALSE]
    ELSE LET r == Route_setRouteData(rts[key], description)
         IN [routes |-> [rts EXCEPT ![key] = r.route], raised |-> r.raised]

(* RouteManager.setRouteData: [routes, raised] *)
RouteManager_setRouteData(rts, route, description, direction) ==
    LET key == <<route, direction>>
        rts1 == IF ~RouteNumberIsKey(rts, route)
                THEN (key :> Route(route, direction)) @@ rts
                ELSE rts
        r == Route_setRouteData(rts1[key], description)
    IN [routes |-> [rts1 EXCEPT ![key] = r.route], raised |-> r.raised]

RouteManager_setCityName(rts, name) ==
    [key \in DOMAIN rts |-> Route_setCityName(rts[key], name)]

RECURSIVE RouteManager_buildLoadKeys(_, _, _)
(* The loop of RouteManager.buildLoad over the keys: [routes, log] *)
RouteManager_buildLoadKeys(rts, lg, keys) ==
    IF keys = << >> THEN [routes |-> rts, log |-> lg]
    ELSE LET r == Route_buildLoad(rts[Head(keys)], lg)
         IN RouteManager_buildLoadKeys([rts EXCEPT ![Head(keys)] = r.route],
                                       r.log, Tail(keys))

RouteManager_buildLoad(rts, lg) ==
    RouteManager_buildLoadKeys(rts, lg, SetToSeq(DOMAIN rts))

(* RouteManager.buildRouteTotals: the rows written below the header *)
RouteManager_buildRouteTotals(rts) ==
    LET keys == SortedKeys(rts) IN
    [i \in DOMAIN keys |->
        LET t == Route_getTotalOffsAndOns(rts[keys[i]])
        IN [route |-> keys[i][1],
            name |-> Route_getDescriptorAndDirectionTrunc(rts[keys[i]]),
            ons |-> t.ons, offs |-> t.offs, total |-> t.total]]

RECURSIVE RouteManager_buildMaxLoadsKeys(_, _)
RouteManager_buildMaxLoadsKeys(rts, keys) ==
    IF keys = << >> THEN << >>
    ELSE Route_buildTotalsByTime(rts[Head(keys)])
         \o RouteManager_buildMaxLoadsKeys(rts, Tail(keys))

(* RouteManager.buildMaxLoads: the rows written below the header *)
RouteManager_buildMaxLoads(rts) == RouteManager_buildMaxLoadsKeys(rts, SortedKeys(rts))

RECURSIVE RouteManager_buildRouteTotalsByStopKeys(_, _)
RouteManager_buildRouteTotalsByStopKeys(rts, keys) ==
    IF keys = << >> THEN << >>
    ELSE <<[kind |-> "header", route |-> Head(keys)[1]]>>
         \o Route_buildRouteTotalsByStop(rts[Head(keys)])
         \o RouteManager_buildRouteTotalsByStopKeys(rts, Tail(keys))

(* RouteManager.buildRouteTotalsByStop: the rows written *)
RouteManager_buildRouteTotalsByStop(rts) ==
    RouteManager_buildRouteTotalsByStopKeys(rts, SortedKeys(rts))

RECURSIVE RouteManager_buildOnTimeDetailKeys(_, _)
RouteManager_buildOnTimeDetailKeys(rts, keys) ==
    IF keys = << >> THEN << >>
    ELSE Route_buildOnTimeDetail(rts[Head(keys)])
         \o RouteManager_buildOnTimeDetailKeys(rts, Tail(keys))

(* RouteManager.buildOnTimeDetail: the rows written below the header *)
RouteManager_buildOnTimeDetail(rts) ==
    RouteManager_buildOnTimeDetailKeys(rts, SortedKeys(rts))

RECURSIVE RouteManager_buildDetailReportKeys(_, _)
RouteManager_buildDetailReportKeys(rts, keys) ==
    IF keys = << >> THEN << >>
    ELSE Route_buildDetailReport(rts[Head(keys)]).blocks
         \o RouteManager_buildDetailReportKeys(rts, Tail(keys))

(* RouteManager.buildDetailReport: [routes, blocks] *)
RouteManager_buildDetailReport(rts) ==
    [routes |-> [key \in DOMAIN rts |-> Route_buildDetailReport(rts[key]).route],
     blocks |-> RouteManager_buildDetailReportKeys(rts, SortedKeys(rts))]

----------------------------------------------------------------------------
(* Values a caller passes *)

(* The (route, direction) keys in use: route order and direction order disagree. *)
RouteKeys == {<<1, "SB">>, <<2, "NB">>}
Descriptors == {"A", "B"}
(* The stop rows of the topology: a plain stop and a timed stop *)
StopRows == {[street |-> "s1", cross_street |-> "c1", is_timed |-> FALSE],
             [street |-> "s2", cross_street |-> "c2", is_timed |-> TRUE]}
Runs == {IntV(1)}
OptionalDateTimes == {None}
(* The counts of an observation: one passenger boards or leaves, with or *)
(* without an onboard value                                              *)
Payloads == {[offs |-> IntV(0), ons |-> IntV(MaxCount), onboard |-> None],
             [offs |-> IntV(MaxCount), ons |-> IntV(0), onboard |-> None],
             [offs |-> IntV(MaxCount), ons |-> IntV(0), onboard |-> IntV(MaxCount)],
             [offs |-> IntV(0), ons |-> IntV(MaxCount), onboard |-> IntV(0)]}

NoCall == [op |-> "none"]
NoFrame == [pc |-> "none"]

----------------------------------------------------------------------------
(* A client of RouteManager: RouteManager(log), then topology and observation *)
(* calls in any order, then buildLoad, then the report builders, each on a     *)
(* fresh worksheet.                                                           *)

Init ==
    /\ routes = EmptyDict
    /\ log = NewLog
    /\ pc = "ingest"
    /\ calls = 0
    /\ last = NoCall
    /\ sheets = EmptyDict
    /\ gs = NoFrame

SetRouteData(route, description, direction) ==
    /\ pc = "ingest"
    /\ calls < MaxCalls
    /\ LET r == RouteManager_setRouteData(routes, route, description, direction) IN
        /\ routes' = (IF r.raised THEN routes ELSE r.routes)
        /\ pc' = (IF r.raised THEN "raised" ELSE pc)
    /\ calls' = calls + 1
    /\ last' = [op |-> "setRouteData", route |-> route, description |-> description,
                direction |-> direction,
                repeated |-> /\ last.op = "setRouteData"
                             /\ last.route = route
                             /\ last.description = description
                             /\ last.direction = direction]
    /\ UNCHANGED <<log, sheets, gs>>

AddStop(route, direction, stop_no, street, cross_street, is_timed) ==
    /\ pc = "ingest"
    /\ calls < MaxCalls
    /\ LET r == RouteManager_addStop(routes, log, route, direction, stop_no, street,
                                     cross_street, is_timed) IN
        /\ routes' = r.routes
        /\ log' = r.log
    /\ calls' = calls + 1
    /\ last' = [op |-> "addStop", route |-> route, direction |-> direction,
                stop_no |-> stop_no, street |-> street, is_timed |-> is_timed]
    /\ UNCHANGED <<pc, sheets, gs>>

AddData(route, direction, stop_no, datetime, run, arrival_time, schedule_time, offs, ons, onboard) ==
    /\ pc = "ingest"
    /\ calls < MaxCalls
    /\ LET r == RouteManager_addData(routes, log, route, direction, stop_no, datetime,
                                     run, arrival_time, schedule_time, offs, ons,
                                     onboard) IN
        /\ routes' = r.routes
        /\ log' = r.log
        /\ last' = [op |-> "addData", route |-> route, direction |-> direction,
                    stop_no |-> stop_no, datetime |-> datetime, onboard |-> onboard,
                    ret |-> r.ret]
    /\ calls' = calls + 1
    /\ UNCHANGED <<pc, sheets, gs>>

BuildLoad ==
    /\ pc = "ingest"
    /\ LET r == RouteManager_buildLoad(routes, log) IN
        /\ routes' = r.routes
        /\ log' = r.log
    /\ pc' = "report"
    /\ last' = [op |-> "buildLoad"]
    /\ UNCHANGED <<calls, sheets, gs>>

BuildRouteTotals ==
    /\ pc = "report"
    /\ sheets' = ("Rte Totals" :> RouteManager_buildRouteTotals(routes))
    /\ last' = [op |-> "buildRouteTotals"]
    /\ UNCHANGED <<routes, log, pc, calls, gs>>

BuildMaxLoads ==
    /\ pc = "report"
    /\ sheets' = ("Max Load" :> RouteManager_buildMaxLoads(routes))
    /\ last' = [op |-> "buildMaxLoads"]
    /\ UNCHANGED <<routes, log, pc, calls, gs>>

BuildRouteTotalsByStop ==
    /\ pc = "report"
    /\ sheets' = ("Ons Offs Tot & Ld" :> RouteManager_buildRouteTotalsByStop(routes))
    /\ last' = [op |-> "buildRouteTotalsByStop"]
    /\ UNCHANGED <<routes, log, pc, calls, gs>>

BuildOnTimeDetail ==
    /\ pc = "report"
    /\ sheets' = ("On Time Detail" :> RouteManager_buildOnTimeDetail(routes))
    /\ last' = [op |-> "buildOnTimeDetail"]
    /\ UNCHANGED <<routes, log, pc, calls, gs>>

BuildDetailReport ==
    /\ pc = "report"
    /\ LET r == RouteManager_buildDetailReport(routes) IN
        /\ routes' = r.routes
        /\ sheets' = ("Detail Report" :> r.blocks)
    /\ last' = [op |-> "buildDetailReport"]
    /\ UNCHANGED <<log, pc, calls, gs>>

ClientSetRouteData ==
    \E key \in RouteKeys, description \in Descriptors :
        SetRouteData(key[1], description, key[2])

ClientAddStop ==
    \E key \in RouteKeys, stop_no \in StopNos, row \in StopRows :
        AddStop(key[1], key[2], stop_no, row.street, row.cross_street, row.is_timed)

ClientAddData ==
    \E key \in RouteKeys, stop_no \in StopNos, datetime \in DateTimes, run \in Runs,
       arrival_time \in OptionalDateTimes, schedule_time \in OptionalDateTimes,
       p \in Payloads :
        AddData(key[1], key[2], stop_no, datetime, run, arrival_time, schedule_time,
                p.offs, p.ons, p.onboard)

Next ==
    \/ ClientSetRouteData
    \/ ClientAddStop
    \/ ClientAddData
    \/ BuildLoad
    \/ BuildRouteTotals
    \/ BuildMaxLoads
    \/ BuildRouteTotalsByStop
    \/ BuildOnTimeDetail
    \/ BuildDetailReport

Spec == Init /\ [][Next]_vars

----------------------------------------------------------------------------
(* generateSummary: the cells of the two input worksheets *)

MaxBusStopRows == 4     \* bus_stop.max_row is at most this
MaxRideCheckRows == 2   \* observation rows of the ride checks sheet

FloatV(x) == [t |-> "float", v |-> x]
Unread == [t |-> "unread"]

(* str(value) of a cell that is empty or holds text *)
str(value) == IF value.t = "none" THEN "None" ELSE value.v

(* Column 10 of a bus stop row: a route number in a header row, a direction   *)
(* in the row below a header, or empty.                                       *)
Col10Cells == {IntV(1), TextV("NB"), None}
Col5Cells == {None} \cup {IntV(n) : n \in StopNos}
Col3Cells == {None, TextV("Town")}

(* One row of the bus stop sheet as the loop reads it: columns 8, 10, 5, 3, 4 *)
(* and the fill of column 3 of the row, column 10 of the row below and        *)
(* column 3 of the row two above.  A header row holds an integer route        *)
(* number; cells the loop does not read at this row are left empty.           *)
BusStopRows(frame) ==
    {row \in [is_header : BOOLEAN, col10 : Col10Cells, below_col10 : Col10Cells \cup {Unread},
              above_col3 : Col3Cells, col5 : Col5Cells, cells : StopRows] :
        /\ row.is_header => row.col10.t = "int"
        /\ frame.next_col10.t /= "unread" => row.col10 = frame.next_col10
        /\ (~row.is_header /\ frame.next_col10.t = "unread") => row.col10.t = "none"
        /\ row.is_header =>
              row.below_col10 \in (IF frame.current_row = frame.max_row
                                   THEN {None} ELSE Col10Cells)
        /\ ~row.is_header => row.below_col10.t = "unread"
        /\ ~(row.is_header /\ frame.current_city.t = "none" /\ frame.current_row > 2) =>
              row.above_col3.t = "none"}

(* The row of the ride checks sheet that every check accepts *)
BaseRow ==
    [sequence |-> IntV(1), date |-> DateV(1), route |-> IntV(1), direction |-> TextV("NB"),
     run |-> IntV(1), start_time |-> TimeV(1), onboard |-> None, stop_number |-> IntV(1),
     arrival_time |-> None, schedule_time |-> None, offs |-> IntV(0), ons |-> IntV(MaxCount)]

(* Other contents of each column: values of the right type, blanks, text      *)
(* where a number or a time is expected, negative counts.                     *)
OtherCells(column) ==
    CASE column = "date" -> {DateV(NumDates), TextV("x")}
      [] column = "route" -> {IntV(2), TextV("x")}
      [] column = "direction" -> {TextV("SB"), TextV("x")}
      [] column = "start_time" -> {TimeV(NumTimes), TextV("x")}
      [] column = "onboard" -> {IntV(0), IntV(MaxCount), TextV(""), TextV("x")}
      [] column = "stop_number" -> {IntV(NumStops)}
      [] column = "arrival_time" -> {TimeV(1), TextV(""), TextV("x")}
      [] column = "schedule_time" -> {TimeV(1), TextV(""), TextV("x")}
      [] column = "offs" -> {IntV(MaxCount), IntV(-1), None, TextV(""), TextV("x")}
      [] column = "ons" -> {IntV(0), IntV(-1), None, TextV(""), TextV("x")}

VariedColumns == {"date", "route", "direction", "start_time", "onboard", "stop_number",
                  "arrival_time", "schedule_time", "offs", "ons"}

(* Other contents of column 1: a gap in the numbering, a number that is not   *)
(* an int, text.                                                              *)
SequenceCells(frame) ==
    {IntV(frame.prev_seq + 2), FloatV(frame.prev_seq + 1), TextV("x")}

(* The rows the sheet may hold next: the row every check accepts, numbered in *)
(* sequence, or that row with one cell replaced.                              *)
RideCheckRows(frame) ==
    LET next == [BaseRow EXCEPT !.sequence = IntV(frame.prev_seq + 1)] IN
    {next}
    \cup {[next EXCEPT !.sequence = s] : s \in SequenceCells(frame)}
    \cup UNION {{[next EXCEPT ![c] = v] : v \in OtherCells(c)} : c \in VariedColumns}

(* The locals of generateSummary, the outcome of each file operation and the  *)
(* value returned.                                                            *)
NewFrame ==
    [current_row |-> 0, max_row |-> 0, current_route |-> None, current_direction |-> "UN",
     current_city |-> None, next_col10 |-> Unread, prev_seq |-> 0, total_ons |-> 0,
     total_offs |-> 0, opened |-> {}, saved |-> "no", status |-> None]

(* One pass of the loop over the bus stop sheet (lines 1035-1062):            *)
(* [routes, log, frame, raised].  bus_stop.cell(row=current_row - 2, ...)     *)
(* raises ValueError when the row index is below 1.                           *)
generateSummary_busStopRow(rts, lg, frame, row) ==
    LET current_route == IF row.is_header THEN row.col10 ELSE frame.current_route
        current_direction == IF row.is_header THEN stringToDirection(row.below_col10)
                             ELSE frame.current_direction
        set == RouteManager_setRouteData(rts, current_route.v, row.cells.cross_street,
                                         current_direction)
        rts1 == IF row.is_header /\ ~set.raised THEN set.routes ELSE rts
        reads_city == row.is_header /\ frame.current_city.t = "none"
        raised == row.is_header /\ (set.raised \/ (reads_city /\ frame.current_row - 2 < 1))
        current_city == IF reads_city THEN TextV(str(row.above_col3)) ELSE frame.current_city
        adds == current_route.t /= "none" /\ isinstance_int(row.col5)
        add == RouteManager_addStop(rts1, lg, current_route.v, current_direction, row.col5.v,
                                    row.cells.street, row.cells.cross_street,
                                    row.cells.is_timed)
        frame1 == [frame EXCEPT !.current_route = current_route,
                                !.current_direction = current_direction,
                                !.next_col10 = row.below_col10]
    IN IF raised
       THEN [routes |-> rts1, log |-> lg, frame |-> frame1, raised |-> TRUE]
       ELSE [routes |-> IF adds THEN add.routes ELSE rts1,
             log |-> IF adds THEN add.log ELSE lg,
             frame |-> [frame1 EXCEPT !.current_city = current_city,
                                      !.current_row = @ + 1],
             raised |-> FALSE]

(* The checks of lines 1097-1165 on the cells of one ride checks row, with    *)
(* the blank strings of lines 1127-1134 read as empty.                        *)
Blank(value) == value.t = "text" /\ value.v = ""
PassesRequiredChecks(row) ==
    /\ isinstance_int(row.sequence)
    /\ row.date.t = "date"
    /\ isinstance_int(row.route)
    /\ stringToDirection(row.direction) /= "UN"
    /\ row.start_time.t = "time"
PassesOptionalChecks(row) ==
    /\ row.onboard.t \in {"none", "int"}
    /\ row.arrival_time.t \in {"none", "time"} \/ Blank(row.arrival_time)
    /\ row.schedule_time.t \in {"none", "time"} \/ Blank(row.schedule_time)
    /\ row.ons.t \in {"none", "int"} \/ Blank(row.ons)
    /\ row.offs.t \in {"none", "int"} \/ Blank(row.offs)

combine(date_cell, time_cell) ==
    IF time_cell.t = "time" THEN DateTimeV(<<date_cell.v, time_cell.v>>) ELSE None

(* One pass of the loop over the ride checks sheet (lines 1074-1195):         *)
(* [routes, log, frame, raised, called, add_data_result].  `sequence - 1` raises      *)
(* TypeError when the cell holds text.                                        *)
generateSummary_rideCheckRow(rts, lg, frame, row) ==
    LET numeric == row.sequence.t \in {"int", "float"}
        lg1 == IF numeric /\ row.sequence.v - 1 /= frame.prev_seq
               THEN logMessage(lg, "W_sequence") ELSE lg
        frame1 == [frame EXCEPT !.prev_seq = row.sequence.v, !.current_row = @ + 1]
        ons == IF Blank(row.ons) THEN None ELSE row.ons
        offs == IF Blank(row.offs) THEN None ELSE row.offs
        add == RouteManager_addData(rts, lg1, row.route.v, stringToDirection(row.direction),
                                    row.stop_number.v, <<row.date.v, row.start_time.v>>,
                                    row.run, combine(row.date, row.arrival_time),
                                    combine(row.date, row.schedule_time), offs, ons,
                                    row.onboard)
    IN IF ~numeric
       THEN [routes |-> rts, log |-> lg, frame |-> frame, raised |-> TRUE,
             called |-> FALSE, add_data_result |-> FALSE]
       ELSE IF ~(PassesRequiredChecks(row) /\ PassesOptionalChecks(row))
       THEN [routes |-> rts, log |-> logMessage(lg1, "E_row_type"), frame |-> frame1,
             raised |-> FALSE, called |-> FALSE, add_data_result |-> FALSE]
       ELSE [routes |-> add.routes,
             log |-> IF add.ret THEN add.log ELSE logMessage(add.log, "E_add_data_failure"),
             frame |-> [frame1 EXCEPT
                          !.total_ons = IF ons.t = "int" THEN @ + ons.v ELSE @,
                          !.total_offs = IF offs.t = "int" THEN @ + offs.v ELSE @],
             raised |-> FALSE, called |-> TRUE, add_data_result |-> add.ret]

----------------------------------------------------------------------------
(* generateSummary(log, ride_checks_filepath, bus_stop_filepath,               *)
(* output_filepath), step by step.  openpyxl.Workbook() holds one sheet.       *)

GenerateSummaryInit ==
    /\ routes = EmptyDict
    /\ log = NewLog
    /\ pc = "open_ride_checks"
    /\ calls = 0
    /\ last = NoCall
    /\ sheets = ("Sheet" :> << >>)
    /\ gs = NewFrame

(* Lines 1002-1007 and 1018-1023: save the empty output and return *)
SaveAndReturn(frame, saves, code) ==
    [frame EXCEPT !.saved = IF saves THEN "ok" ELSE "failed",
                  !.status = IF saves THEN IntV(code) ELSE IntV(2)]

OpenRideChecks(opens, saves) ==
    /\ pc = "open_ride_checks"
    /\ IF opens
       THEN /\ gs' = [gs EXCEPT !.opened = @ \cup {"ride_checks"}]
            /\ log' = log
            /\ pc' = "open_bus_stop"
       ELSE /\ gs' = SaveAndReturn(gs, saves, 1)
            /\ log' = logMessage(log, "E_open_ride_checks")
            /\ pc' = "returned"
    /\ last' = [op |-> "open_ride_checks"]
    /\ UNCHANGED <<routes, calls, sheets>>

OpenBusStop(opens, saves, max_row) ==
    /\ pc = "open_bus_stop"
    /\ IF opens
       THEN /\ gs' = [gs EXCEPT !.opened = @ \cup {"bus_stop"}, !.max_row = max_row,
                                !.current_row = 1]
            /\ log' = log
            /\ pc' = "bus_stop_rows"
       ELSE /\ gs' = SaveAndReturn(gs, saves, 1)
            /\ log' = logMessage(log, "E_open_bus_stop")
            /\ pc' = "returned"
    /\ last' = [op |-> "open_bus_stop"]
    /\ UNCHANGED <<routes, calls, sheets>>

BusStopRow(row) ==
    /\ pc = "bus_stop_rows"
    /\ gs.current_row <= gs.max_row
    /\ LET r == generateSummary_busStopRow(routes, log, gs, row) IN
        /\ routes' = r.routes
        /\ log' = r.log
        /\ gs' = r.frame
        /\ pc' = (IF r.raised THEN "raised" ELSE pc)
    /\ last' = [op |-> "bus_stop_row"]
    /\ UNCHANGED <<calls, sheets>>

(* The loop over the bus stop sheet is over: setCityName (line 1066) *)
BusStopDone ==
    /\ pc = "bus_stop_rows"
    /\ gs.current_row > gs.max_row
    /\ routes' = RouteManager_setCityName(routes, gs.current_city)
    /\ gs' = [gs EXCEPT !.current_row = 2]
    /\ pc' = "ride_check_rows"
    /\ last' = [op |-> "set_city_name"]
    /\ UNCHANGED <<log, calls, sheets>>

RideCheckRow(row) ==
    /\ pc = "ride_check_rows"
    /\ calls < MaxRideCheckRows
    /\ LET r == generateSummary_rideCheckRow(routes, log, gs, row) IN
        /\ routes' = r.routes
        /\ log' = r.log
        /\ gs' = r.frame
        /\ pc' = (IF r.raised THEN "raised" ELSE pc)
        /\ last' = [op |-> "ride_check_row", row |-> row,
                    type_ok |-> PassesRequiredChecks(row) /\ PassesOptionalChecks(row),
                    called |-> r.called, ret |-> r.add_data_result]
    /\ calls' = calls + 1
    /\ UNCHANGED sheets

(* Column 1 of the next row is empty: the loop ends, and the totals are       *)
(* compared (lines 1197-1199).                                                *)
RideChecksDone ==
    /\ pc = "ride_check_rows"
    /\ log' = (IF gs.total_ons /= gs.total_offs THEN logMessage(log, "W_ons_offs") ELSE log)
    /\ pc' = "build_load"
    /\ last' = [op |-> "ride_checks_done"]
    /\ UNCHANGED <<routes, calls, sheets, gs>>

(* buildLoad and the removal of the sheets of the new workbook (1203-1210) *)
GenerateLoad ==
    /\ pc = "build_load"
    /\ LET r == RouteManager_buildLoad(routes, log) IN
        /\ routes' = r.routes
        /\ log' = r.log
    /\ sheets' = EmptyDict
    /\ pc' = "rte_totals"
    /\ last' = [op |-> "buildLoad"]
    /\ UNCHANGED <<calls, gs>>

GenerateRouteTotals ==
    /\ pc = "rte_totals"
    /\ sheets' = ("Rte Totals" :> RouteManager_buildRouteTotals(routes)) @@ sheets
    /\ pc' = "max_load"
    /\ last' = [op |-> "buildRouteTotals"]
    /\ UNCHANGED <<routes, log, calls, gs>>

GenerateMaxLoad ==
    /\ pc = "max_load"
    /\ sheets' = ("Max Load" :> RouteManager_buildMaxLoads(routes)) @@ sheets
    /\ pc' = "totals_by_stop"
    /\ last' = [op |-> "buildMaxLoads"]
    /\ UNCHANGED <<routes, log, calls, gs>>

GenerateTotalsByStop ==
    /\ pc = "totals_by_stop"
    /\ sheets' = ("Ons Offs Tot & Ld" :> RouteManager_buildRouteTotalsByStop(routes)) @@ sheets
    /\ pc' = "on_time_detail"
    /\ last' = [op |-> "buildRouteTotalsByStop"]
    /\ UNCHANGED <<routes, log, calls, gs>>

GenerateOnTimeDetail ==
    /\ pc = "on_time_detail"
    /\ sheets' = ("On Time Detail" :> RouteManager_buildOnTimeDetail(routes)) @@ sheets
    /\ pc' = "detail_report"
    /\ last' = [op |-> "buildOnTimeDetail"]
    /\ UNCHANGED <<routes, log, calls, gs>>

GenerateDetailReport ==
    /\ pc = "detail_report"
    /\ LET r == RouteManager_buildDetailReport(routes) IN
        /\ routes' = r.routes
        /\ sheets' = ("Detail Report" :> r.blocks) @@ sheets
    /\ pc' = "save"
    /\ last' = [op |-> "buildDetailReport"]
    /\ UNCHANGED <<log, calls, gs>>

(* The Notes sheet and the save of the output (lines 1238-1250) *)
SaveOutput(saves) ==
    /\ pc = "save"
    /\ sheets' = ("Notes" :> << >>) @@ sheets
    /\ gs' = SaveAndReturn(gs, saves, 0)
    /\ pc' = "returned"
    /\ last' = [op |-> "save"]
    /\ UNCHANGED <<routes, log, calls>>

ReadBusStopRow == \E row \in BusStopRows(gs) : BusStopRow(row)
ReadRideCheckRow == \E row \in RideCheckRows(gs) : RideCheckRow(row)
LoadRideChecks == \E opens \in BOOLEAN, saves \in BOOLEAN : OpenRideChecks(opens, saves)
LoadBusStop ==
    \E opens \in BOOLEAN, saves \in BOOLEAN, max_row \in 1..MaxBusStopRows :
        OpenBusStop(opens, saves, max_row)
Save == \E saves \in BOOLEAN : SaveOutput(saves)

GenerateSummaryNext ==
    \/ LoadRideChecks
    \/ LoadBusStop
    \/ ReadBusStopRow
    \/ BusStopDone
    \/ ReadRideCheckRow
    \/ RideChecksDone
    \/ GenerateLoad
    \/ GenerateRouteTotals
    \/ GenerateMaxLoad
    \/ GenerateTotalsByStop
    \/ GenerateOnTimeDetail
    \/ GenerateDetailReport
    \/ Save

GenerateSummary == GenerateSummaryInit /\ [][GenerateSummaryNext]_vars

----------------------------------------------------------------------------
(* Reading the stored model, for the properties below *)

HasObs(rt, stop_no, d) == d \in DOMAIN rt.stops[stop_no].data
OnsAt(rt, stop_no, d) == IF HasObs(rt, stop_no, d) THEN rt.stops[stop_no].data[d].ons ELSE 0
OffsAt(rt, stop_no, d) == IF HasObs(rt, stop_no, d) THEN rt.stops[stop_no].data[d].offs ELSE 0
OnboardAt(rt, d) == IF d \in DOMAIN rt.onboard THEN rt.onboard[d] ELSE 0
NetUpTo(rt, stop_no, d) ==
    LET upto == {s \in DOMAIN rt.stops : s <= stop_no}
    IN SumOver([s \in upto |-> OnsAt(rt, s, d) - OffsAt(rt, s, d)], upto)
Cells(rt, ds) == {<<s, d>> : s \in DOMAIN rt.stops, d \in ds}
TotalOns(rt, ds) ==
    SumOver([c \in Cells(rt, ds) |-> OnsAt(rt, c[1], c[2])], Cells(rt, ds))
TotalOffs(rt, ds) ==
    SumOver([c \in Cells(rt, ds) |-> OffsAt(rt, c[1], c[2])], Cells(rt, ds))
LastKey == <<last.route, last.direction>>

----------------------------------------------------------------------------
(* C1. Load conservation: once buildLoad has run, on every route, for every   *)
(* departure d of the route and every stop s, the load stored at s for d is   *)
(* onboard[d] (0 when none was given) plus the sum of ons - offs at d over    *)
(* the stops numbered <= s.                                                   *)
LoadConservation ==
    pc = "report" =>
        \A key \in DOMAIN routes :
            \A d \in Range(routes[key].times), s \in DOMAIN routes[key].stops :
                /\ HasObs(routes[key], s, d)
                /\ routes[key].stops[s].data[d].load
                     = OnboardAt(routes[key], d) + NetUpTo(routes[key], s, d)

(* A route with two stops, a departure with an onboard value and an           *)
(* observation at each stop, after buildLoad.                                 *)
LoadConservationWitness ==
    /\ pc = "report"
    /\ \E key \in DOMAIN routes : \E d \in Range(routes[key].times) :
        /\ Cardinality(DOMAIN routes[key].stops) = 2
        /\ d \in DOMAIN routes[key].onboard
        /\ routes[key].onboard[d] > 0
        /\ \A s \in DOMAIN routes[key].stops :
              routes[key].stops[s].data[d].ons + routes[key].stops[s].data[d].offs > 0

----------------------------------------------------------------------------
(* C2. Duplicate rejection: an addData call for a (route, direction, stop,    *)
(* departure) that already holds an observation returns failure, leaves the   *)
(* stored run, arrival, schedule, offs and ons as they were, and logs exactly *)
(* one more error.                                                            *)
IsDuplicateCall(c) ==
    /\ c.op = "addData"
    /\ <<c.route, c.direction>> \in DOMAIN routes
    /\ c.stop_no \in DOMAIN routes[<<c.route, c.direction>>].stops
    /\ HasObs(routes[<<c.route, c.direction>>], c.stop_no, c.datetime)

ObsFields(rts, c) ==
    LET o == rts[<<c.route, c.direction>>].stops[c.stop_no].data[c.datetime]
    IN <<o.run, o.arrival_time, o.schedule_time, o.offs, o.ons>>

DuplicateRejection ==
    [][IsDuplicateCall(last') =>
          /\ last'.ret = FALSE
          /\ ObsFields(routes', last') = ObsFields(routes, last')
          /\ NumErrors(log') = NumErrors(log) + 1]_vars

(* A duplicate addData call has just returned failure. *)
DuplicateRejectionWitness ==
    /\ last.op = "addData"
    /\ last.ret = FALSE
    /\ log["E_addData_duplicate"] = 1

(* C3. Unknown route or stop: an addData call for a key that is not in the    *)
(* catalog, or for a stop number the route does not have, returns failure and *)
(* logs an error, creates no Route and no Stop, and leaves the departure list *)
(* and the onboard map of every route unchanged.                              *)
IsUnknownCall(c) ==
    /\ c.op = "addData"
    /\ \/ <<c.route, c.direction>> \notin DOMAIN routes
       \/ c.stop_no \notin DOMAIN routes[<<c.route, c.direction>>].stops

UnknownRouteOrStop ==
    [][IsUnknownCall(last') =>
          /\ last'.ret = FALSE
          /\ NumErrors(log') = NumErrors(log) + 1
          /\ DOMAIN routes' = DOMAIN routes
          /\ \A key \in DOMAIN routes :
                /\ DOMAIN routes'[key].stops = DOMAIN routes[key].stops
                /\ routes'[key].times = routes[key].times
                /\ routes'[key].onboard = routes[key].onboard]_vars

(* A call for a stop the route does not have has just failed, on a route that *)
(* has departures and an onboard value, after a call for an unknown route.    *)
UnknownRouteOrStopWitness ==
    /\ last.op = "addData"
    /\ last.ret = FALSE
    /\ log["E_addData_no_route"] = 1
    /\ log["E_addData_no_stop"] = 1
    /\ LastKey \in DOMAIN routes
    /\ last.stop_no \notin DOMAIN routes[LastKey].stops
    /\ routes[LastKey].times /= << >>

(* C4. Chronological grouping: whatever the order of ingestion, the Max Load  *)
(* sheet holds, for every route, exactly one row per distinct time of day of  *)
(* the route's departures, and the ons and offs of that row are the sums over *)
(* all stops and all the departures (of any date) with that time of day.      *)
RowsOf(rows, key) ==
    SelectSeq(rows, LAMBDA row : row.route = key[1] /\ row.name[2] = key[2])
DeparturesAt(rt, t) == {d \in Range(rt.times) : time(d) = t}

ChronologicalGrouping ==
    "Max Load" \in DOMAIN sheets =>
        \A key \in DOMAIN routes :
            LET rows == RowsOf(sheets["Max Load"], key)
                tods == {time(d) : d \in Range(routes[key].times)}
            IN /\ Len(rows) = Cardinality(tods)
               /\ {rows[i].start_time : i \in DOMAIN rows} = tods
               /\ \A i \in DOMAIN rows :
                     /\ rows[i].ons
                          = TotalOns(routes[key], DeparturesAt(routes[key], rows[i].start_time))
                     /\ rows[i].offs
                          = TotalOffs(routes[key], DeparturesAt(routes[key], rows[i].start_time))

(* The sheet of a route with three departures, two of them at the same time   *)
(* of day on different dates, each with passengers: two rows.                 *)
ChronologicalGroupingWitness ==
    /\ "Max Load" \in DOMAIN sheets
    /\ \E key \in DOMAIN routes :
         /\ Len(routes[key].times) = 3
         /\ Len(RowsOf(sheets["Max Load"], key)) = 2
         /\ \E i \in DOMAIN sheets["Max Load"] :
               sheets["Max Load"][i].ons + sheets["Max Load"][i].offs = 2

(* C5. Row skip isolation: a ride checks row that fails a required-field or    *)
(* optional-field type check is skipped whole: the model is left as it was    *)
(* (no departure, onboard value or count of the row is written) and ingestion *)
(* goes on with the next row, as if the row were not in the file.             *)
RowSkipIsolation ==
    [][(pc = "ride_check_rows" /\ last'.op = "ride_check_row" /\ ~last'.type_ok) =>
          (routes' = routes /\ pc' = "ride_check_rows")]_vars

(* C6. Idempotent metadata: a setRouteData call that repeats the call just    *)
(* made, with the same route, descriptor and direction, leaves the catalog    *)
(* (descriptors, stops, departures, onboard values) as the first call left it.*)
IdempotentMetadata ==
    [][(last'.op = "setRouteData" /\ last'.repeated) =>
          (routes' = routes /\ pc' = pc)]_vars

(* setRouteData has just been called twice in a row with the same arguments,  *)
(* in a catalog that holds another route with a stop.                         *)
IdempotentMetadataWitness ==
    /\ last.op = "setRouteData"
    /\ last.repeated
    /\ LastKey \in DOMAIN routes
    /\ routes[LastKey].descriptor = last.description
    /\ \E key \in DOMAIN routes : DOMAIN routes[key].stops /= {}

(* C7. Status protocol: generateSummary ends by returning 1 when an input     *)
(* cannot be opened and the empty output is saved, 2 when the output cannot   *)
(* be saved, 0 when both inputs open and the output is saved; nothing met     *)
(* during ingestion changes that.                                             *)
Ended == pc \in {"returned", "raised"}
BothOpened == gs.opened = {"ride_checks", "bus_stop"}

StatusProtocol ==
    Ended =>
        /\ gs.status.t = "int"
        /\ gs.status.v = 1 <=> (~BothOpened /\ gs.saved = "ok")
        /\ gs.status.v = 2 <=> gs.saved = "failed"
        /\ gs.status.v = 0 <=> (BothOpened /\ gs.saved = "ok")

(* C8. No escaping errors: whatever the cells of the two worksheets hold,     *)
(* generateSummary raises no exception.                                       *)
NoEscapingErrors == pc /= "raised"

(* C9. Route Totals: the sheet holds exactly one row per route of the         *)
(* catalog, in ascending (route number, direction code) order; ons and offs   *)
(* of a row are the sums over all stops and all departures of the route, and  *)
(* total = ons + offs.                                                        *)
RowKey(row) == <<row.route, row.name[2]>>

RouteTotals ==
    "Rte Totals" \in DOMAIN sheets =>
        LET rows == sheets["Rte Totals"] IN
        /\ Len(rows) = Cardinality(DOMAIN routes)
        /\ {RowKey(rows[i]) : i \in DOMAIN rows} = DOMAIN routes
        /\ \A i, j \in DOMAIN rows :
              i < j => \/ rows[i].route < rows[j].route
                       \/ /\ rows[i].route = rows[j].route
                          /\ DirectionRank(rows[i].name[2]) < DirectionRank(rows[j].name[2])
        /\ \A i \in DOMAIN rows :
              /\ rows[i].ons = TotalOns(routes[RowKey(rows[i])], DateTimes)
              /\ rows[i].offs = TotalOffs(routes[RowKey(rows[i])], DateTimes)
              /\ rows[i].total = rows[i].ons + rows[i].offs

(* The sheet of a catalog of two routes, one of which has boardings and       *)
(* alightings.                                                                *)
RouteTotalsWitness ==
    /\ "Rte Totals" \in DOMAIN sheets
    /\ Len(sheets["Rte Totals"]) = 2
    /\ \E i \in DOMAIN sheets["Rte Totals"] :
          /\ sheets["Rte Totals"][i].ons > 0
          /\ sheets["Rte Totals"][i].offs > 0

(* C10. Max load value: the Max Load written for a time-of-day group of a     *)
(* route is the maximum of the loads stored at any stop of the route for any  *)
(* departure of the group, also when every stored load is negative.           *)
GroupLoads(rt, t) ==
    {rt.stops[s].data[d].load : s \in DOMAIN rt.stops, d \in DeparturesAt(rt, t)}
IsMaximum(m, S) == m \in S /\ \A x \in S : x <= m

MaxLoadValue ==
    (pc = "report" /\ "Max Load" \in DOMAIN sheets) =>
        \A key \in DOMAIN routes :
            LET rows == RowsOf(sheets["Max Load"], key) IN
            \A i \in DOMAIN rows :
                IsMaximum(rows[i].max_load, GroupLoads(routes[key], rows[i].start_time))

(* C11. Catalog identity and no destruction: during topology ingestion a      *)
(* (route number, direction) key keeps denoting the same Route and the set of *)
(* stops of that Route only grows; a later setRouteData for the key removes   *)
(* none of its stops.                                                         *)
CatalogIdentity ==
    [][pc = "ingest" =>
          \A key \in DOMAIN routes :
              /\ key \in DOMAIN routes'
              /\ DOMAIN routes[key].stops \subseteq DOMAIN routes'[key].stops]_vars

----------------------------------------------------------------------------
(* Reading one step of the ride checks loop, for the properties below *)

IsRideCheckRowStep == pc = "ride_check_rows" /\ last'.op = "ride_check_row"
(* Every check passes on the row once the named optional column is emptied *)
OthersPass(row, column) ==
    PassesRequiredChecks(row) /\ PassesOptionalChecks([row EXCEPT ![column] = None])
RowKeyOf(row) == <<row.route.v, stringToDirection(row.direction)>>
RowDeparture(row) == <<row.date.v, row.start_time.v>>
(* The (route, stop, departure) cells that hold an observation in rts2 and not in rts *)
NewObs(rts, rts2) ==
    {o \in UNION {{<<key, s, d>> : s \in DOMAIN rts2[key].stops, d \in DateTimes} :
                    key \in DOMAIN rts2} :
        /\ o[3] \in DOMAIN rts2[o[1]].stops[o[2]].data
        /\ ~(/\ o[1] \in DOMAIN rts
             /\ o[2] \in DOMAIN rts[o[1]].stops
             /\ o[3] \in DOMAIN rts[o[1]].stops[o[2]].data)}
StoredCountsNonNegative ==
    \A key \in DOMAIN routes : \A s \in DOMAIN routes[key].stops :
        \A d \in DOMAIN routes[key].stops[s].data :
            /\ routes[key].stops[s].data[d].offs >= 0
            /\ routes[key].stops[s].data[d].ons >= 0

NegativeInt(value) == value.t = "int" /\ value.v < 0
NotNonNegativeInt(value) == NegativeInt(value) \/ (value.t \notin {"none", "int"} /\ ~Blank(value))

(* C12 as stated. Lenient offs/ons: a row whose offs or ons is present but    *)
(* is not a non-negative integer, and which is valid otherwise, is not        *)
(* rejected: it is passed to addData and the observation it records has 0 in  *)
(* that field; every stored observation has offs >= 0 and ons >= 0.           *)
LenientOffsOns ==
    [][IsRideCheckRowStep =>
          /\ \A column \in {"offs", "ons"} :
                (NotNonNegativeInt(last'.row[column]) /\ OthersPass(last'.row, column)) =>
                    /\ last'.called
                    /\ last'.ret =>
                          /\ NewObs(routes, routes') /= {}
                          /\ \A o \in NewObs(routes, routes') :
                                routes'[o[1]].stops[o[2]].data[o[3]][column] = 0
          /\ StoredCountsNonNegative']_vars

(* C12, amended. A row whose offs or ons is a negative integer, and which is  *)
(* valid otherwise, is not rejected: it is passed to addData and the          *)
(* observation it records has 0 in that field.  A row whose offs or ons holds *)
(* a value that is no integer is rejected.  Every stored observation has      *)
(* offs >= 0 and ons >= 0.                                                    *)
LenientNegativeOffsOns ==
    [][IsRideCheckRowStep =>
          /\ \A column \in {"offs", "ons"} :
                /\ (NegativeInt(last'.row[column]) /\ OthersPass(last'.row, column)) =>
                      /\ last'.called
                      /\ last'.ret =>
                            /\ NewObs(routes, routes') /= {}
                            /\ \A o \in NewObs(routes, routes') :
                                  routes'[o[1]].stops[o[2]].data[o[3]][column] = 0
                /\ (NotNonNegativeInt(last'.row[column]) /\ ~NegativeInt(last'.row[column])
                      /\ OthersPass(last'.row, column)) =>
                      (~last'.called /\ routes' = routes)
          /\ StoredCountsNonNegative']_vars

(* A row with offs = -1 has just been recorded, with 0 stored for offs *)
LenientNegativeOffsOnsWitness ==
    /\ pc = "ride_check_rows"
    /\ last.op = "ride_check_row"
    /\ NegativeInt(last.row.offs)
    /\ last.called /\ last.ret
    /\ routes[RowKeyOf(last.row)].stops[last.row.stop_number.v].data[RowDeparture(last.row)].offs = 0

(* C13. Optional-field normalization: for each of onboard, arrival_time,      *)
(* schedule_time, offs and ons, a row (valid otherwise) in which the field is *)
(* the empty string is accepted and handled as the same row with the field    *)
(* empty; a row in which the field holds a value of the wrong type is         *)
(* rejected with one logged error.                                            *)
OptionalColumns == {"onboard", "arrival_time", "schedule_time", "offs", "ons"}
ExpectedType(column) == IF column \in {"arrival_time", "schedule_time"} THEN "time" ELSE "int"
WrongType(value, column) == value.t \notin {"none", ExpectedType(column)} /\ ~Blank(value)

OptionalNormalization ==
    [][IsRideCheckRowStep =>
          \A column \in OptionalColumns :
              OthersPass(last'.row, column) =>
                  /\ Blank(last'.row[column]) =>
                        LET r == generateSummary_rideCheckRow(routes, log, gs,
                                     [last'.row EXCEPT ![column] = None])
                        IN /\ last'.called
                           /\ routes' = r.routes
                           /\ log' = r.log
                           /\ gs' = r.frame
                  /\ WrongType(last'.row[column], column) =>
                        /\ ~last'.called
                        /\ routes' = routes
                        /\ NumErrors(log') = NumErrors(log) + 1]_vars

----------------------------------------------------------------------------
(* Reading one call of a client of RouteManager, for the properties below *)

IsAddDataStep == pc = "ingest" /\ last'.op = "addData"
CallKey(c) == <<c.route, c.direction>>

(* C14. Onboard last write wins: a successful addData call that supplies an   *)
(* onboard value leaves that value stored for the departure, and logs a       *)
(* warning exactly when a different value was stored before (none on the      *)
(* first write or on a rewrite of the same value); a successful call that     *)
(* supplies none leaves the stored values as they were.                       *)
OnboardLastWriteWins ==
    [][(IsAddDataStep /\ last'.ret) =>
          LET key == CallKey(last')
              d == last'.datetime
              differs == /\ last'.onboard.t = "int"
                         /\ d \in DOMAIN routes[key].onboard
                         /\ routes[key].onboard[d] /= last'.onboard.v
          IN /\ last'.onboard.t = "int" =>
                    /\ d \in DOMAIN routes'[key].onboard
                    /\ routes'[key].onboard[d] = last'.onboard.v
                    /\ \A e \in DOMAIN routes'[key].onboard \ {d} :
                          /\ e \in DOMAIN routes[key].onboard
                          /\ routes'[key].onboard[e] = routes[key].onboard[e]
             /\ last'.onboard.t = "none" => routes'[key].onboard = routes[key].onboard
             /\ log'["W_onboard_override"] =
                    log["W_onboard_override"] + (IF differs THEN 1 ELSE 0)]_vars

(* Two successful calls for the same departure, at two stops, the second with *)
(* another onboard value: the second value is stored and one warning logged.  *)
OnboardLastWriteWinsWitness ==
    /\ pc = "ingest"
    /\ calls = 4
    /\ last.op = "addData" /\ last.ret /\ last.onboard.t = "int"
    /\ NumErrors(log) = 0
    /\ log["W_onboard_override"] = 1
    /\ \A s \in StopNos :
          /\ s \in DOMAIN routes[LastKey].stops
          /\ last.datetime \in DOMAIN routes[LastKey].stops[s].data
    /\ routes[LastKey].onboard[last.datetime] = last.onboard.v

(* C15. Duplicate stop: addStop with a stop number the route already has logs *)
(* one error and changes nothing: the Stop stored first (street, cross        *)
(* street, observations) stays and timed_stops is unchanged, also when        *)
(* is_timed is true.  timed_stops is always sorted, free of duplicates and    *)
(* made of stop numbers of the route.                                         *)
IsAddStopStep == pc = "ingest" /\ last'.op = "addStop"
TimedStopsWellFormed ==
    \A key \in DOMAIN routes :
        LET timed == routes[key].timed_stops IN
        /\ \A i, j \in DOMAIN timed : i < j => timed[i] < timed[j]
        /\ Range(timed) \subseteq DOMAIN routes[key].stops

DuplicateStop ==
    [][/\ (/\ IsAddStopStep
           /\ CallKey(last') \in DOMAIN routes
           /\ last'.stop_no \in DOMAIN routes[CallKey(last')].stops) =>
              /\ routes' = routes
              /\ NumErrors(log') = NumErrors(log) + 1
       /\ TimedStopsWellFormed']_vars

(* addStop, with is_timed true, has just been refused for a stop that was     *)
(* added before as an untimed stop of another street.                         *)
DuplicateStopWitness ==
    /\ pc = "ingest"
    /\ last.op = "addStop" /\ last.is_timed
    /\ LastKey \in DOMAIN routes
    /\ last.stop_no \in DOMAIN routes[LastKey].stops
    /\ routes[LastKey].stops[last.stop_no].street /= last.street
    /\ routes[LastKey].timed_stops = << >>
    /\ log["E_addStop_duplicate"] = 1

(* C16. Read-only projections: the five report builders, run in any order and *)
(* any number of times, leave the model as it was: routes, stops, observation *)
(* records, loads, onboard values and the order of each departure list.       *)
ReadOnlyProjections ==
    [][pc = "report" => routes' = routes]_vars

(* The detail report, which sorts the departure list, has just run on a       *)
(* route whose list holds a later date before an earlier one, with a load     *)
(* stored.                                                                    *)
ReadOnlyProjectionsWitness ==
    /\ pc = "report"
    /\ last.op = "buildDetailReport"
    /\ "Detail Report" \in DOMAIN sheets
    /\ \E key \in DOMAIN routes :
          /\ \E i, j \in DOMAIN routes[key].times :
                i < j /\ DateTimeLess(routes[key].times[j], routes[key].times[i])
          /\ \E s \in DOMAIN routes[key].stops : \E d \in DOMAIN routes[key].stops[s].data :
                routes[key].stops[s].data[d].load /= 0

(* C17. A failed addData leaves the route untouched: when addData fails       *)
(* because the stop already holds an observation for the departure, the       *)
(* onboard values and the departure list of the route are as before the call, *)
(* also when the call carries another onboard value than the stored one.      *)
FailedAddDataLeavesRoute ==
    [][(IsAddDataStep /\ IsDuplicateCall(last')) =>
          /\ ~last'.ret
          /\ routes'[CallKey(last')].onboard = routes[CallKey(last')].onboard
          /\ routes'[CallKey(last')].times = routes[CallKey(last')].times]_vars

(* C18. Departure list invariant: the departure list of a route holds each    *)
(* start datetime at most once, holds every datetime for which a stop of the  *)
(* route has an observation, and is sorted ascending by (time of day, date).  *)
DepartureListInvariant ==
    \A key \in DOMAIN routes :
        LET times == routes[key].times IN
        /\ \A i, j \in DOMAIN times : i < j => TimeDateLess(times[i], times[j])
        /\ \A s \in DOMAIN routes[key].stops :
              DOMAIN routes[key].stops[s].data \subseteq Range(times)

(* A list of two departures, both observed at one stop: the earlier time, of  *)
(* the later date, comes first.                                               *)
DepartureListInvariantWitness ==
    /\ pc = "ingest"
    /\ last.op = "addData" /\ last.ret
    /\ \E key \in DOMAIN routes :
          /\ Len(routes[key].times) = 2
          /\ DateTimeLess(routes[key].times[2], routes[key].times[1])
          /\ \E s \in DOMAIN routes[key].stops : DOMAIN routes[key].stops[s].data = DateTimes \ {<<1, 1>>, <<2, 2>>}


----------------------------------------------------------------------------
(* The negative-load warnings of the log that name this route, departure and  *)
(* stop.                                                                      *)
NegativeLoadWarnings(rt, d, s) ==
    {i \in DOMAIN log.negative_load :
        log.negative_load[i] = <<rt.route, rt.direction, d, s>>}

(* The load carried into stop s at departure d: the onboard value at the      *)
(* lowest stop number, the stored load of the next lower stop otherwise.      *)
CarriedInto(rt, s, d) ==
    LET lower == {q \in DOMAIN rt.stops : q < s}
    IN IF lower = {}
       THEN OnboardAt(rt, d)
       ELSE rt.stops[CHOOSE q \in lower : \A o \in lower : o <= q].data[d].load

(* C19. Negative load: once buildLoad has run, for every departure d and stop *)
(* s of every route, the load stored at s is the load carried into s plus ons *)
(* minus offs at s, whatever its sign (a negative load is stored as it is and *)
(* is what the next stop starts from); the log holds exactly one negative-    *)
(* load warning naming (route, direction, d, s) when that load is below 0 and *)
(* none when it is >= 0; and the log holds no other negative-load warning.    *)
NegativeLoad ==
    pc = "report" =>
        /\ \A key \in DOMAIN routes :
             \A d \in Range(routes[key].times), s \in DOMAIN routes[key].stops :
                LET rt == routes[key]
                    load == CarriedInto(rt, s, d) + OnsAt(rt, s, d) - OffsAt(rt, s, d)
                IN /\ rt.stops[s].data[d].load = load
                   /\ Cardinality(NegativeLoadWarnings(rt, d, s))
                        = IF load < 0 THEN 1 ELSE 0
        /\ Len(log.negative_load) = log["W_negative_load"]
        /\ \A i \in DOMAIN log.negative_load :
             \E key \in DOMAIN routes :
                /\ log.negative_load[i][1] = routes[key].route
                /\ log.negative_load[i][2] = routes[key].direction
                /\ log.negative_load[i][3] \in Range(routes[key].times)
                /\ log.negative_load[i][4] \in DOMAIN routes[key].stops

(* A departure whose load is -1 at the first stop and, carried on, -2 at the  *)
(* second, with the two warnings logged.                                      *)
NegativeLoadWitness ==
    /\ pc = "report"
    /\ log["W_negative_load"] = 2
    /\ \E key \in DOMAIN routes : \E d \in Range(routes[key].times) :
        /\ DOMAIN routes[key].stops = {1, 2}
        /\ routes[key].stops[1].data[d].load = -1
        /\ routes[key].stops[2].data[d].load = -2
        /\ NegativeLoadWarnings(routes[key], d, 1) /= {}
        /\ NegativeLoadWarnings(routes[key], d, 2) /= {}


----------------------------------------------------------------------------
(* C20. Propagation order: once buildLoad has run, the negative-load warnings *)
(* that name one route stand in the log in ascending (time-of-day, date)      *)
(* order of their departures and, within a departure, in ascending stop       *)
(* number.                                                                    *)
PropagationOrder ==
    pc = "report" =>
        \A i, j \in DOMAIN log.negative_load :
            LET a == log.negative_load[i]
                b == log.negative_load[j]
            IN (i < j /\ a[1] = b[1] /\ a[2] = b[2]) =>
                  \/ TimeDateLess(a[3], b[3])
                  \/ a[3] = b[3] /\ a[4] < b[4]


----------------------------------------------------------------------------
(* The phases of generateSummary in the order of its code: opening the two    *)
(* inputs, the bus stop loop (topology), the ride checks loop (observations), *)
(* buildLoad (load propagation), the reports and the save, the end.           *)
PhaseRank(p) ==
    CASE p = "open_ride_checks" -> 0
      [] p = "open_bus_stop" -> 1
      [] p = "bus_stop_rows" -> 2
      [] p = "ride_check_rows" -> 3
      [] p = "build_load" -> 4
      [] p \in {"rte_totals", "max_load", "totals_by_stop", "on_time_detail",
                "detail_report", "save"} -> 5
      [] OTHER -> 6

(* The routes and the stops of each, with what the topology rows give them *)
Catalog(rts) ==
    [key \in DOMAIN rts |->
        [stop_order |-> rts[key].stop_order, timed_stops |-> rts[key].timed_stops,
         descriptor |-> rts[key].descriptor,
         streets |-> [s \in DOMAIN rts[key].stops |->
                        <<rts[key].stops[s].street, rts[key].stops[s].cross_street>>]]]

(* The departures and the onboard values of each route *)
Departures(rts) ==
    UNION {{<<key, "times", i, rts[key].times[i]>> : i \in DOMAIN rts[key].times}
           \cup {<<key, "onboard", d, rts[key].onboard[d]>> : d \in DOMAIN rts[key].onboard} :
           key \in DOMAIN rts}

(* Every (route, stop, departure) that holds a record, with its load *)
Loads(rts) ==
    UNION {UNION {{<<key, s, d, rts[key].stops[s].data[d].load>> :
                     d \in DOMAIN rts[key].stops[s].data} :
                  s \in DOMAIN rts[key].stops} : key \in DOMAIN rts}

(* C21. Load lifecycle and phase order: in every step of generateSummary the  *)
(* phase never goes back; the routes and stops change only in the bus stop    *)
(* loop, the departures and onboard values only in the ride checks loop, a    *)
(* report sheet is added only after buildLoad has run; as long as buildLoad   *)
(* has not run every stored load is 0; the step that runs buildLoad leaves a  *)
(* load for every stop and departure of every route, each departure standing  *)
(* once in the list the loop goes through; and no later step changes a load.  *)
LoadLifecycle ==
    [][/\ PhaseRank(pc') >= PhaseRank(pc)
       /\ Catalog(routes') /= Catalog(routes) => pc = "bus_stop_rows"
       /\ Departures(routes') /= Departures(routes) => pc = "ride_check_rows"
       /\ DOMAIN sheets' \ DOMAIN sheets /= {} => PhaseRank(pc) = 5
       /\ PhaseRank(pc) <= 4 => \A l \in Loads(routes) : l[4] = 0
       /\ PhaseRank(pc') <= 4 => \A l \in Loads(routes') : l[4] = 0
       /\ pc = "build_load" =>
             \A key \in DOMAIN routes :
                LET times == routes[key].times IN
                /\ \A i, j \in DOMAIN times : i /= j => times[i] /= times[j]
                /\ \A s \in DOMAIN routes[key].stops :
                      Range(times) \subseteq DOMAIN routes'[key].stops[s].data
       /\ PhaseRank(pc) >= 5 => Loads(routes') = Loads(routes)]_vars

(* A run that returned 0 after all the phases, with a load that is not 0 *)
LoadLifecycleWitness ==
    /\ pc = "returned"
    /\ gs.status = IntV(0)
    /\ DOMAIN sheets = {"Rte Totals", "Max Load", "Ons Offs Tot & Ld", "On Time Detail",
                        "Detail Report", "Notes"}
    /\ \E l \in Loads(routes) : l[4] /= 0


----------------------------------------------------------------------------
(* The (route, stop, departure) keys that hold an observation record *)
RecordKeys(rts) == {<<l[1], l[2], l[3]>> : l \in Loads(rts)}

(* C22. Observation records are created only by observation ingestion: a step *)
(* that is not an addData call (buildLoad, a report) leaves the set of        *)
(* (route, stop, departure) keys that hold a record as it was.                *)
RecordsOnlyFromIngestion ==
    [][(pc' /= "ingest" /\ pc /= "raised") => RecordKeys(routes') = RecordKeys(routes)]_vars


----------------------------------------------------------------------------
(* C23. Descriptor propagation: after every setRouteData or addStop call      *)
(* every Stop's descriptor and direction equal those of the Route that holds  *)
(* it; a setRouteData call for a route that has stops leaves those stops in   *)
(* the route with the new descriptor; and the stop an addStop call adds       *)
(* carries the descriptor the route has.                                      *)
DescriptorPropagation ==
    [][(pc = "ingest" /\ pc' = "ingest" /\ last'.op \in {"setRouteData", "addStop"}) =>
          LET key == <<last'.route, last'.direction>> IN
          /\ \A k \in DOMAIN routes' : \A s \in DOMAIN routes'[k].stops :
                /\ routes'[k].stops[s].descriptor = routes'[k].descriptor
                /\ routes'[k].stops[s].direction = routes'[k].direction
          /\ (last'.op = "setRouteData" /\ key \in DOMAIN routes) =>
                \A s \in DOMAIN routes[key].stops :
                    /\ s \in DOMAIN routes'[key].stops
                    /\ routes'[key].stops[s].descriptor = last'.description
          /\ (last'.op = "addStop" /\ key \in DOMAIN routes
                /\ last'.stop_no \notin DOMAIN routes[key].stops) =>
                routes'[key].stops[last'.stop_no].descriptor = routes[key].descriptor]_vars


----------------------------------------------------------------------------
(* The sequence of the row read before this one, 0 before the first row *)
PrevSequence == IF last.op = "ride_check_row" THEN last.row.sequence.v ELSE 0

(* C24. Sequence check is advisory: reading a ride checks row logs one        *)
(* out-of-order warning when the sequence of the row is not the sequence of   *)
(* the row before it (0 before the first row) plus one, and none when it is;  *)
(* and a row with an integer sequence leaves the routes and every other       *)
(* message count as the same row numbered in order would.                     *)
SequenceAdvisory ==
    [][IsRideCheckRowStep =>
          LET row == last'.row
              in_order == /\ row.sequence.t \in {"int", "float"}
                          /\ row.sequence.v = PrevSequence + 1
              same == generateSummary_rideCheckRow(routes, log, gs,
                          [row EXCEPT !.sequence = IntV(PrevSequence + 1)])
          IN /\ log'["W_sequence"] = log["W_sequence"] + (IF in_order THEN 0 ELSE 1)
             /\ isinstance_int(row.sequence) =>
                   /\ routes' = same.routes
                   /\ \A site \in LogSites \ {"W_sequence"} : log'[site] = same.log[site]]_vars


----------------------------------------------------------------------------
(* The rows of one kind that a report wrote for a route number *)
RowsOfKind(rows, kind, route) ==
    SelectSeq(rows, LAMBDA row : row.kind = kind /\ row.route = route)

(* C25. Totals by Stop: once the view is written it holds, for every route,   *)
(* one row per stop of the route whose ons, offs and load are the sums over   *)
(* all the records of the stop and whose total is ons + offs, and one totals  *)
(* row whose ons, offs and total are the sums of the stop rows and whose load *)
(* is the sum of the onboard values of the route plus the sum of the loads of *)
(* the stop rows.                                                             *)
TotalsByStop ==
    (pc = "report" /\ "Ons Offs Tot & Ld" \in DOMAIN sheets) =>
        \A key \in DOMAIN routes :
            LET rt == routes[key]
                stop_rows == RowsOfKind(sheets["Ons Offs Tot & Ld"], "stop", key[1])
                totals == RowsOfKind(sheets["Ons Offs Tot & Ld"], "totals", key[1])
                idx == DOMAIN stop_rows
                sum(f(_), S) == SumOver([x \in S |-> f(x)], S)
                ons_of(i) == stop_rows[i].ons
                offs_of(i) == stop_rows[i].offs
                total_of(i) == stop_rows[i].total
                load_of(i) == stop_rows[i].load
            IN /\ Len(stop_rows) = Cardinality(DOMAIN rt.stops)
               /\ {stop_rows[i].stop_no : i \in idx} = DOMAIN rt.stops
               /\ \A i \in idx :
                     LET data == rt.stops[stop_rows[i].stop_no].data
                         ons_at(d) == data[d].ons
                         offs_at(d) == data[d].offs
                         load_at(d) == data[d].load
                     IN /\ stop_rows[i].ons = sum(ons_at, DOMAIN data)
                        /\ stop_rows[i].offs = sum(offs_at, DOMAIN data)
                        /\ stop_rows[i].load = sum(load_at, DOMAIN data)
                        /\ stop_rows[i].total = stop_rows[i].ons + stop_rows[i].offs
               /\ Len(totals) = 1
               /\ totals[1].ons = sum(ons_of, idx)
               /\ totals[1].offs = sum(offs_of, idx)
               /\ totals[1].total = sum(total_of, idx)
               /\ totals[1].load = SumOver(rt.onboard, DOMAIN rt.onboard) + sum(load_of, idx)

(* The view of a route with two stops, an onboard value above 0 and a stop    *)
(* whose load is not 0.                                                       *)
TotalsByStopWitness ==
    /\ pc = "report"
    /\ "Ons Offs Tot & Ld" \in DOMAIN sheets
    /\ \E key \in DOMAIN routes :
        /\ Cardinality(DOMAIN routes[key].stops) = 2
        /\ \E d \in DOMAIN routes[key].onboard : routes[key].onboard[d] > 0
        /\ \E i \in DOMAIN sheets["Ons Offs Tot & Ld"] :
              /\ sheets["Ons Offs Tot & Ld"][i].kind = "stop"
              /\ sheets["Ons Offs Tot & Ld"][i].route = key[1]
              /\ sheets["Ons Offs Tot & Ld"][i].load /= 0
              /\ sheets["Ons Offs Tot & Ld"][i].total > 0


----------------------------------------------------------------------------
(* The client of RouteManager that gives arrival and schedule times: stops    *)
(* and observations of one route, then buildLoad and the On Time Detail.      *)

(* Arrival and schedule time of day, in tens of seconds, of an observation:   *)
(* missing ones, equal ones, and differences of 30, 50 and 90 seconds late    *)
(* and of 30 and 40 seconds early.                                            *)
ArrivalSchedulePairs ==
    {<<0, 0>>, <<1, 0>>, <<0, 1>>, <<1, 1>>, <<4, 1>>, <<6, 1>>, <<10, 1>>, <<1, 4>>, <<1, 5>>}
OptionalTime(d, t) == IF t = 0 THEN None ELSE DateTimeV(<<d, t>>)
OnTimeDepartures == {<<1, 1>>, <<2, 1>>, <<1, 2>>}

OnTimeAddStop ==
    \E stop_no \in StopNos, row \in StopRows :
        AddStop(1, "SB", stop_no, row.street, row.cross_street, row.is_timed)

OnTimeAddData ==
    \E stop_no \in StopNos, datetime \in OnTimeDepartures, p \in ArrivalSchedulePairs :
        AddData(1, "SB", stop_no, datetime, IntV(1), OptionalTime(date(datetime), p[1]),
                OptionalTime(date(datetime), p[2]), IntV(0), IntV(MaxCount), None)

OnTimeNext ==
    \/ OnTimeAddStop
    \/ OnTimeAddData
    \/ BuildLoad
    \/ BuildOnTimeDetail

OnTimeSpec == Init /\ [][OnTimeNext]_vars

(* C26. On-Time Detail: once the view is written, a route with no timed stop  *)
(* has no row in it; a route with timed stops has one row per departure of    *)
(* the route, in the order of the departure list, with one cell per timed     *)
(* stop in ascending stop number; the cell is "NA" when the stop holds no     *)
(* record for the departure or the record lacks the arrival or the schedule   *)
(* time, and otherwise a whole number of minutes within 30 seconds of arrival *)
(* minus schedule, not above 0 when the arrival is before the schedule.       *)
OnTimeDetail ==
    (pc = "report" /\ "On Time Detail" \in DOMAIN sheets) =>
        \A key \in DOMAIN routes :
            LET rt == routes[key]
                timed == rt.timed_stops
                all == SelectSeq(sheets["On Time Detail"], LAMBDA row : row.route = key[1])
                rows == RowsOfKind(sheets["On Time Detail"], "departure", key[1])
            IN /\ timed = << >> => all = << >>
               /\ \A i, j \in DOMAIN timed : i < j => timed[i] < timed[j]
               /\ timed /= << >> =>
                    /\ Len(rows) = Len(rt.times)
                    /\ \A n \in DOMAIN rows :
                         LET d == rt.times[n] IN
                         /\ <<rows[n].date, rows[n].time>> = d
                         /\ DOMAIN rows[n].cells = DOMAIN timed
                         /\ \A i \in DOMAIN timed :
                              LET data == rt.stops[timed[i]].data
                                  cell == rows[n].cells[i]
                                  missing == \/ d \notin DOMAIN data
                                             \/ data[d].arrival_time.t = "none"
                                             \/ data[d].schedule_time.t = "none"
                                  delta == (date(data[d].arrival_time.v)
                                              - date(data[d].schedule_time.v)) * 86400
                                           + (time(data[d].arrival_time.v)
                                              - time(data[d].schedule_time.v)) * 10
                              IN IF missing THEN cell = TextV("NA")
                                 ELSE /\ cell.t = "int"
                                      /\ 60 * cell.v - delta <= 30
                                      /\ delta - 60 * cell.v <= 30
                                      /\ delta < 0 => cell.v <= 0

(* The view of a route with a timed stop and three departures: 90 seconds     *)
(* late shown as 2, 40 seconds early shown as -1, and a missing schedule      *)
(* time shown as "NA".                                                        *)
OnTimeDetailWitness ==
    /\ pc = "report"
    /\ "On Time Detail" \in DOMAIN sheets
    /\ \E i, j, k \in DOMAIN sheets["On Time Detail"] :
        /\ sheets["On Time Detail"][i].kind = "departure"
        /\ sheets["On Time Detail"][j].kind = "departure"
        /\ sheets["On Time Detail"][k].kind = "departure"
        /\ sheets["On Time Detail"][i].cells[1] = IntV(2)
        /\ sheets["On Time Detail"][j].cells[1] = IntV(-1)
        /\ sheets["On Time Detail"][k].cells[1] = TextV("NA")


----------------------------------------------------------------------------
(* The blocks the Detail Report holds for a route number *)
BlocksOf(route) == SelectSeq(sheets["Detail Report"], LAMBDA b : b.route = route)
(* The worksheet column of the on cell of the n-th departure *)
BlockColumn(n) == 5 + 3 * (n - 1)

(* C27. Detail Report totals: once the report is written, a route with no     *)
(* departure has no block in it; a route with departures has one block, with  *)
(* one row per stop of the route and one header per departure of the route,   *)
(* the headers in ascending (time-of-day, date) order, three columns apart;   *)
(* and under every header the totals row holds the sum of the on cells of the *)
(* stop rows, the sum of the off cells, and the onboard value of the          *)
(* departure (0 when none was given) plus the sum of the load cells.          *)
DetailReportTotals ==
    (pc = "report" /\ "Detail Report" \in DOMAIN sheets) =>
        \A key \in DOMAIN routes :
            LET rt == routes[key]
                blocks == BlocksOf(key[1])
            IN IF rt.times = << >> THEN blocks = << >>
               ELSE /\ Len(blocks) = 1
                    /\ LET b == blocks[1]
                           departure(n) == <<b.headers[n].date, b.headers[n].time>>
                           column(c) == SumOver([i \in DOMAIN b.stops |-> b.stops[i].cells[c]],
                                                DOMAIN b.stops)
                       IN /\ Len(b.stops) = Cardinality(DOMAIN rt.stops)
                          /\ {b.stops[i].stop_no : i \in DOMAIN b.stops} = DOMAIN rt.stops
                          /\ Len(b.headers) = Len(rt.times)
                          /\ {departure(n) : n \in DOMAIN b.headers} = Range(rt.times)
                          /\ \A n, m \in DOMAIN b.headers :
                                n < m => TimeDateLess(departure(n), departure(m))
                          /\ \A n \in DOMAIN b.headers :
                                /\ b.headers[n].col = BlockColumn(n)
                                /\ b.onboard[n] = OnboardAt(rt, departure(n))
                                /\ b.totals[BlockColumn(n)] = column(BlockColumn(n))
                                /\ b.totals[BlockColumn(n) + 1] = column(BlockColumn(n) + 1)
                                /\ b.totals[BlockColumn(n) + 2]
                                     = OnboardAt(rt, departure(n)) + column(BlockColumn(n) + 2)

(* The report of a route with two stops and two departures, one of them with  *)
(* an onboard value above 0.                                                  *)
DetailReportTotalsWitness ==
    /\ pc = "report"
    /\ "Detail Report" \in DOMAIN sheets
    /\ \E key \in DOMAIN routes :
        /\ Cardinality(DOMAIN routes[key].stops) = 2
        /\ Len(routes[key].times) = 2
        /\ \E d \in DOMAIN routes[key].onboard : routes[key].onboard[d] > 0
        /\ Len(BlocksOf(key[1])) = 1


----------------------------------------------------------------------------
(* C28. Detail Report column alignment: once buildLoad has run, the           *)
(* departures every stop holds a record for are the departures of the list of *)
(* its route; and in the Detail Report the cells a stop row holds under the   *)
(* header of a departure are the ons, offs and load of the record of the stop *)
(* for that departure, a stop with no observation for it showing 0 ons and 0  *)
(* offs.                                                                      *)
ColumnAlignment ==
    pc = "report" =>
        \A key \in DOMAIN routes :
            LET rt == routes[key] IN
            /\ \A s \in DOMAIN rt.stops : DOMAIN rt.stops[s].data = Range(rt.times)
            /\ ("Detail Report" \in DOMAIN sheets /\ rt.times /= << >>) =>
                  LET b == BlocksOf(key[1])[1] IN
                  \A i \in DOMAIN b.stops, n \in DOMAIN b.headers :
                      LET record == rt.stops[b.stops[i].stop_no].data[
                                        <<b.headers[n].date, b.headers[n].time>>]
                          col == b.headers[n].col
                      IN /\ DOMAIN b.stops[i].cells
                              = UNION {{BlockColumn(k), BlockColumn(k) + 1, BlockColumn(k) + 2} :
                                          k \in DOMAIN b.headers}
                         /\ b.stops[i].cells[col] = record.ons
                         /\ b.stops[i].cells[col + 1] = record.offs
                         /\ b.stops[i].cells[col + 2] = record.load

(* The report of a route with two departures and two stops, the second stop   *)
(* observed at the later departure of the list only: its row shows 0 ons      *)
(* under the first header and its boarding under the second.                  *)
ColumnAlignmentWitness ==
    /\ pc = "report"
    /\ "Detail Report" \in DOMAIN sheets
    /\ \E key \in DOMAIN routes :
        /\ Len(routes[key].times) = 2
        /\ DOMAIN routes[key].stops = {1, 2}
        /\ routes[key].stops[2].data[routes[key].times[1]].run.t = "none"
        /\ routes[key].stops[2].data[routes[key].times[2]].ons = 1
        /\ \E i \in DOMAIN BlocksOf(key[1])[1].stops :
              /\ BlocksOf(key[1])[1].stops[i].stop_no = 2
              /\ BlocksOf(key[1])[1].stops[i].cells[BlockColumn(1)] = 0
              /\ BlocksOf(key[1])[1].stops[i].cells[BlockColumn(2)] = 1


----------------------------------------------------------------------------
(* The sums of ons and of offs over all the records the routes hold *)
RecordedOns(rts) ==
    SumOver([o \in RecordKeys(rts) |-> rts[o[1]].stops[o[2]].data[o[3]].ons], RecordKeys(rts))
RecordedOffs(rts) ==
    SumOver([o \in RecordKeys(rts) |-> rts[o[1]].stops[o[2]].data[o[3]].offs], RecordKeys(rts))

(* C29. Ons/offs mismatch warning matches the model: the step that ends the   *)
(* ride checks loop logs the warning that total ons and total offs are not    *)
(* equal exactly when the sum of ons over all recorded observations differs   *)
(* from the sum of offs over all recorded observations.                       *)
MismatchWarningMatchesModel ==
    [][(pc = "ride_check_rows" /\ pc' = "build_load") =>
          /\ log'["W_ons_offs"] \in {0, 1}
          /\ log'["W_ons_offs"] = 1 <=> RecordedOns(routes) /= RecordedOffs(routes)]_vars


----------------------------------------------------------------------------
(* C30. Observation ingestion terminates: every step that reads a row of the  *)
(* ride checks sheet, whatever becomes of the row, leaves the loop at the     *)
(* next row; and the step that finds column 1 empty reads no row, leaves the  *)
(* routes as they are and goes on to buildLoad.                               *)
IngestionAdvances ==
    [][pc = "ride_check_rows" =>
          IF last'.op = "ride_check_row"
          THEN /\ pc' = "ride_check_rows"
               /\ gs'.current_row = gs.current_row + 1
          ELSE /\ pc' = "build_load"
               /\ routes' = routes]_vars

====
